---- MODULE Spec2Model ----
(***************************************************************************)
(* Constraint-based type inference for TIP: the Union-Find store, the      *)
(* constraint collector, the solver (registration, unification, linking)   *)
(* and the post-hoc validator, modelled from the TypeScript sources.       *)
(*                                                                         *)
(* Identifiers of the store are the strings getTypeId builds: "expr_" or   *)
(* "type_" followed by the JSON text of the expression or type.  AST nodes *)
(* and types are records with the field names of the source objects.       *)
(***************************************************************************)
EXTENDS Integers, Sequences, FiniteSets, TLC

VARIABLES
    prog,         \* the parsed program handed to the checker (a sequence of functions)
    constraints,  \* ConstraintCollector.constraints
    uf,           \* the UnionFind store: parent, rank, typeInfo (+ Map insertion order)
    errors,       \* the error list of performUnification, then the final list
    pc,           \* position of the run inside processTypeCheck / performUnification
    idx,          \* loop index of the unification loop
    last,         \* the last store operation applied and what it returned
    pool          \* store-level specification: which pool of ids and payloads is in use

vars == <<prog, constraints, uf, errors, pc, idx, last, pool>>

(***************************************************************************)
(* Generic helpers                                                         *)
(***************************************************************************)
Put(f, k, v) == (k :> v) @@ f

\* TRUE, found by computing v: a loop that asks it of the value it carries
\* from round to round computes each round before it starts the next
Evaluated(v) == v = v

Has(r, field) == field \in DOMAIN r

Max2(a, b) == IF a >= b THEN a ELSE b

Min2(a, b) == IF a <= b THEN a ELSE b

(***************************************************************************)
(* Types (types.ts ConcreteType and the constraint operands)               *)
(***************************************************************************)
\* typeInfo holds null for a class without payload
NoType == [absent |-> TRUE]

IsType(t) == ~Has(t, "absent")

IntT == [type |-> "int"]

PtrNone == [type |-> "pointer"]

PtrT(t) == [type |-> "pointer", pointsTo |-> t]

TypeVarT(n) == [type |-> "typevar", name |-> n]

FnT(params, ret) == [type |-> "function", parameters |-> params, returnType |-> ret]

FnNoRet(params) == [type |-> "function", parameters |-> params]

RecursiveT(v, body) == [type |-> "recursive", variable |-> v, body |-> body]

Field(n, t) == [name |-> n, fieldType |-> t]

RecordT(fields) == [type |-> "record", fields |-> fields]

\* CustomType { expression }: "the type of this expression", it has no type tag
Deferred(e) == [expression |-> e]

\* { expression: undefined }: what symbolTable.get gives for an undeclared name
EmptyItem == [empty |-> TRUE]

\* t.type of the source: undefined for a CustomType
Tag(t) == IF Has(t, "type") THEN t.type ELSE "undefined"

(***************************************************************************)
(* Type variable names                                                     *)
(***************************************************************************)
GreekLetters == <<"α", "β", "γ", "δ", "ε", "ζ", "η", "θ", "ι", "κ", "λ", "μ",
                  "ν", "ξ", "ο", "π", "ρ", "ς", "σ", "τ", "υ", "φ", "χ", "ψ", "ω">>

\* /^[α-ω](\d+)?$/ on the names the model uses: a Greek letter, optionally indexed
IsGreekName(n) ==
    \E i \in 1..Len(GreekLetters) :
        \/ n = GreekLetters[i]
        \/ \E k \in 0..9 : n = GreekLetters[i] \o ToString(k)

(***************************************************************************)
(* UnionFind (union-find.ts)                                               *)
(***************************************************************************)
EmptyUF == [parent |-> <<>>, rank |-> <<>>, typeInfo |-> <<>>, order |-> <<>>]

Registered(u) == DOMAIN u.parent

MakeSet(u, id, t) ==
    [parent   |-> Put(u.parent, id, id),
     rank     |-> Put(u.rank, id, 0),
     typeInfo |-> Put(u.typeInfo, id, t),
     order    |-> IF id \in DOMAIN u.parent THEN u.order ELSE Append(u.order, id)]

\* find that returns the root and leaves the parent pointers as they are
RECURSIVE FindNoCompression(_, _)
FindNoCompression(u, id) ==
    LET go(u1, parentId) ==
            IF parentId # id THEN [uf |-> u1, root |-> FindNoCompression(u1, parentId).root]
            ELSE [uf |-> u1, root |-> id]
        start(u1) == go(u1, u1.parent[id])
    IN  start(IF id \in DOMAIN u.parent THEN u ELSE MakeSet(u, id, NoType))

RECURSIVE Find(_, _)
Find(u, id) ==
    LET compress(r) == [uf |-> [r.uf EXCEPT !.parent[id] = r.root], root |-> r.root]
        go(u1, parentId) ==
            IF parentId # id THEN compress(Find(u1, parentId)) ELSE [uf |-> u1, root |-> id]
        start(u1) == go(u1, u1.parent[id])
    IN  start(IF id \in DOMAIN u.parent THEN u ELSE MakeSet(u, id, NoType))

RECURSIVE HasTypeVariable(_)
HasTypeVariable(t) ==
    IF Tag(t) = "typevar" THEN TRUE
    ELSE IF Tag(t) = "pointer"
    THEN IF Has(t, "pointsTo") THEN HasTypeVariable(t.pointsTo) ELSE FALSE
    ELSE IF Tag(t) = "function"
    THEN IF \E i \in 1..Len(t.parameters) : HasTypeVariable(t.parameters[i])
         THEN TRUE
         ELSE IF Has(t, "returnType") THEN HasTypeVariable(t.returnType) ELSE FALSE
    ELSE IF Tag(t) = "record"
    THEN \E i \in 1..Len(t.fields) : HasTypeVariable(t.fields[i].fieldType)
    ELSE IF Has(t, "expression") /\ Tag(t.expression) = "Variable"
    THEN IsGreekName(t.expression.name)
    ELSE FALSE

\* fields.find((f) => f.name === n): index of the first field named n, 0 if none
FieldIndex(fields, n) ==
    IF \E i \in 1..Len(fields) : fields[i].name = n
    THEN CHOOSE i \in 1..Len(fields) :
            /\ fields[i].name = n
            /\ \A j \in 1..(i - 1) : fields[j].name # n
    ELSE 0

RECURSIVE IsCompatible(_, _)

\* isSubset that looks at the names of the fields only
isSubsetNamesOnly(smaller, larger) ==
    \A i \in 1..Len(smaller.fields) :
        FieldIndex(larger.fields, smaller.fields[i].name) # 0

\* the local function isSubset of the record case of isCompatible
isSubset(smaller, larger) ==
    \A i \in 1..Len(smaller.fields) :
        LET k == FieldIndex(larger.fields, smaller.fields[i].name)
        IN  /\ k # 0
            /\ IsCompatible(smaller.fields[i].fieldType, larger.fields[k].fieldType)

IsCompatible(type1, type2) ==
    LET t1 == Tag(type1)
        t2 == Tag(type2)
    IN  IF (t1 = "pointer" /\ t2 = "int") \/ (t1 = "int" /\ t2 = "pointer")
        THEN FALSE
        ELSE IF t1 = "recursive" /\ t2 = "function"
                /\ Has(type1, "body") /\ Tag(type1.body) = "function"
        THEN IsCompatible(type1.body, type2)
        ELSE IF t2 = "recursive" /\ t1 = "function"
                /\ Has(type2, "body") /\ Tag(type2.body) = "function"
        THEN IsCompatible(type1, type2.body)
        ELSE IF t1 # t2 THEN FALSE
        ELSE CASE t1 = "int" -> TRUE
               [] t1 = "pointer" ->
                    IF ~Has(type1, "pointsTo") \/ ~Has(type2, "pointsTo") THEN TRUE
                    ELSE IF HasTypeVariable(type1.pointsTo) \/ HasTypeVariable(type2.pointsTo)
                    THEN TRUE
                    ELSE IsCompatible(type1.pointsTo, type2.pointsTo)
               [] t1 = "function" ->
                    IF Len(type1.parameters) # Len(type2.parameters) THEN FALSE
                    ELSE IF \E i \in 1..Len(type1.parameters) :
                                ~IsCompatible(type1.parameters[i], type2.parameters[i])
                    THEN FALSE
                    ELSE IF Has(type1, "returnType") /\ Has(type2, "returnType")
                    THEN IsCompatible(type1.returnType, type2.returnType)
                    ELSE TRUE
               [] t1 = "typevar" -> TRUE
               [] t1 = "recursive" ->
                    /\ type1.variable = type2.variable
                    /\ IsCompatible(type1.body, type2.body)
               [] t1 = "record" -> isSubset(type1, type2) \/ isSubset(type2, type1)
               [] OTHER -> FALSE

selectBetterType(t1, t2) ==
    IF ~IsType(t1) THEN t2
    ELSE IF ~IsType(t2) THEN t1
    ELSE IF Tag(t1) = "typevar" /\ Tag(t2) # "typevar" THEN t2
    ELSE IF Tag(t2) = "typevar" /\ Tag(t1) # "typevar" THEN t1
    ELSE t1

\* union that merges the two classes without the compatibility check
UnionUnchecked(u, id1, id2) ==
    LET merge(u0, root1, root2, type1, type2, rank1, rank2) ==
            LET both == IsType(type1) /\ IsType(type2)
                anyVar == Tag(type1) = "typevar" \/ Tag(type2) = "typevar"
                \* lines 65-83: payload adjustments made before the merge
                info1 ==
                    IF both /\ anyVar /\ Tag(type1) = "typevar" /\ Tag(type2) # "typevar"
                    THEN [u0.typeInfo EXCEPT ![root1] = type2]
                    ELSE IF both /\ anyVar /\ Tag(type2) = "typevar" /\ Tag(type1) # "typevar"
                    THEN [u0.typeInfo EXCEPT ![root2] = type1]
                    ELSE u0.typeInfo
            IN  IF root1 = root2 THEN [uf |-> u0, ok |-> TRUE]
                ELSE IF rank1 < rank2
                THEN [uf |-> [u0 EXCEPT !.parent[root1] = root2,
                                        !.typeInfo = [info1 EXCEPT ![root2] =
                                                          selectBetterType(type2, type1)]],
                      ok |-> TRUE]
                ELSE [uf |-> [u0 EXCEPT !.parent[root2] = root1,
                                        !.rank[root1] = IF rank1 > rank2 THEN rank1 ELSE rank1 + 1,
                                        !.typeInfo = [info1 EXCEPT ![root1] =
                                                          selectBetterType(type1, type2)]],
                      ok |-> TRUE]
        roots(u0, root1, root2) ==
            merge(u0, root1, root2, u0.typeInfo[root1], u0.typeInfo[root2],
                  u0.rank[root1], u0.rank[root2])
        second(f1, f2) == roots(f2.uf, f1.root, f2.root)
        first(f1) == second(f1, Find(f1.uf, id2))
    IN  first(Find(u, id1))

\* union that lets a type variable through only when it is the payload of id1
UnionTypeVarLeftOnly(u, id1, id2) ==
    LET merge(u0, root1, root2, type1, type2, rank1, rank2) ==
            LET both == IsType(type1) /\ IsType(type2)
                anyVar == Tag(type1) = "typevar"
                \* lines 65-83: payload adjustments made before the merge
                info1 ==
                    IF both /\ anyVar /\ Tag(type1) = "typevar" /\ Tag(type2) # "typevar"
                    THEN [u0.typeInfo EXCEPT ![root1] = type2]
                    ELSE IF both /\ anyVar /\ Tag(type2) = "typevar" /\ Tag(type1) # "typevar"
                    THEN [u0.typeInfo EXCEPT ![root2] = type1]
                    ELSE u0.typeInfo
            IN  IF root1 = root2 THEN [uf |-> u0, ok |-> TRUE]
                ELSE IF both /\ ~anyVar /\ ~IsCompatible(type1, type2)
                THEN [uf |-> u0, ok |-> FALSE]
                ELSE IF rank1 < rank2
                THEN [uf |-> [u0 EXCEPT !.parent[root1] = root2,
                                        !.typeInfo = [info1 EXCEPT ![root2] =
                                                          selectBetterType(type2, type1)]],
                      ok |-> TRUE]
                ELSE [uf |-> [u0 EXCEPT !.parent[root2] = root1,
                                        !.rank[root1] = IF rank1 > rank2 THEN rank1 ELSE rank1 + 1,
                                        !.typeInfo = [info1 EXCEPT ![root1] =
                                                          selectBetterType(type1, type2)]],
                      ok |-> TRUE]
        roots(u0, root1, root2) ==
            merge(u0, root1, root2, u0.typeInfo[root1], u0.typeInfo[root2],
                  u0.rank[root1], u0.rank[root2])
        second(f1, f2) == roots(f2.uf, f1.root, f2.root)
        first(f1) == second(f1, Find(f1.uf, id2))
    IN  first(Find(u, id1))

\* union that links the two roots before it checks the payloads
UnionLinkBeforeCheck(u, id1, id2) ==
    LET merge(u0, root1, root2, type1, type2, rank1, rank2) ==
            LET both == IsType(type1) /\ IsType(type2)
                anyVar == Tag(type1) = "typevar" \/ Tag(type2) = "typevar"
                \* lines 65-83: payload adjustments made before the merge
                info1 ==
                    IF both /\ anyVar /\ Tag(type1) = "typevar" /\ Tag(type2) # "typevar"
                    THEN [u0.typeInfo EXCEPT ![root1] = type2]
                    ELSE IF both /\ anyVar /\ Tag(type2) = "typevar" /\ Tag(type1) # "typevar"
                    THEN [u0.typeInfo EXCEPT ![root2] = type1]
                    ELSE u0.typeInfo
            IN  IF root1 = root2 THEN [uf |-> u0, ok |-> TRUE]
                ELSE IF both /\ ~anyVar /\ ~IsCompatible(type1, type2)
                THEN [uf |-> [u0 EXCEPT !.parent[root2] = root1], ok |-> FALSE]
                ELSE IF rank1 < rank2
                THEN [uf |-> [u0 EXCEPT !.parent[root1] = root2,
                                        !.typeInfo = [info1 EXCEPT ![root2] =
                                                          selectBetterType(type2, type1)]],
                      ok |-> TRUE]
                ELSE [uf |-> [u0 EXCEPT !.parent[root2] = root1,
                                        !.rank[root1] = IF rank1 > rank2 THEN rank1 ELSE rank1 + 1,
                                        !.typeInfo = [info1 EXCEPT ![root1] =
                                                          selectBetterType(type1, type2)]],
                      ok |-> TRUE]
        roots(u0, root1, root2) ==
            merge(u0, root1, root2, u0.typeInfo[root1], u0.typeInfo[root2],
                  u0.rank[root1], u0.rank[root2])
        second(f1, f2) == roots(f2.uf, f1.root, f2.root)
        first(f1) == second(f1, Find(f1.uf, id2))
    IN  first(Find(u, id1))

\* union that merges at the two ids it was given instead of at their roots
UnionOfArguments(u, id1, id2) ==
    LET merge(u0, root1, root2, type1, type2, rank1, rank2) ==
            LET both == IsType(type1) /\ IsType(type2)
                anyVar == Tag(type1) = "typevar" \/ Tag(type2) = "typevar"
                \* lines 65-83: payload adjustments made before the merge
                info1 ==
                    IF both /\ anyVar /\ Tag(type1) = "typevar" /\ Tag(type2) # "typevar"
                    THEN [u0.typeInfo EXCEPT ![root1] = type2]
                    ELSE IF both /\ anyVar /\ Tag(type2) = "typevar" /\ Tag(type1) # "typevar"
                    THEN [u0.typeInfo EXCEPT ![root2] = type1]
                    ELSE u0.typeInfo
            IN  IF root1 = root2 THEN [uf |-> u0, ok |-> TRUE]
                ELSE IF both /\ ~anyVar /\ ~IsCompatible(type1, type2)
                THEN [uf |-> u0, ok |-> FALSE]
                ELSE IF rank1 < rank2
                THEN [uf |-> [u0 EXCEPT !.parent[root1] = root2,
                                        !.typeInfo = [info1 EXCEPT ![root2] =
                                                          selectBetterType(type2, type1)]],
                      ok |-> TRUE]
                ELSE [uf |-> [u0 EXCEPT !.parent[root2] = root1,
                                        !.rank[root1] = IF rank1 > rank2 THEN rank1 ELSE rank1 + 1,
                                        !.typeInfo = [info1 EXCEPT ![root1] =
                                                          selectBetterType(type1, type2)]],
                      ok |-> TRUE]
        roots(u0, root1, root2) ==
            merge(u0, root1, root2, u0.typeInfo[root1], u0.typeInfo[root2],
                  u0.rank[root1], u0.rank[root2])
        second(f1, f2) == roots(f2.uf, id1, id2)
        first(f1) == second(f1, Find(f1.uf, id2))
    IN  first(Find(u, id1))

\* union(id1, id2): the store afterwards and the boolean returned
Union(u, id1, id2) ==
    LET merge(u0, root1, root2, type1, type2, rank1, rank2) ==
            LET both == IsType(type1) /\ IsType(type2)
                anyVar == Tag(type1) = "typevar" \/ Tag(type2) = "typevar"
                \* lines 65-83: payload adjustments made before the merge
                info1 ==
                    IF both /\ anyVar /\ Tag(type1) = "typevar" /\ Tag(type2) # "typevar"
                    THEN [u0.typeInfo EXCEPT ![root1] = type2]
                    ELSE IF both /\ anyVar /\ Tag(type2) = "typevar" /\ Tag(type1) # "typevar"
                    THEN [u0.typeInfo EXCEPT ![root2] = type1]
                    ELSE u0.typeInfo
            IN  IF root1 = root2 THEN [uf |-> u0, ok |-> TRUE]
                ELSE IF both /\ ~anyVar /\ ~IsCompatible(type1, type2)
                THEN [uf |-> u0, ok |-> FALSE]
                ELSE IF rank1 < rank2
                THEN [uf |-> [u0 EXCEPT !.parent[root1] = root2,
                                        !.typeInfo = [info1 EXCEPT ![root2] =
                                                          selectBetterType(type2, type1)]],
                      ok |-> TRUE]
                ELSE [uf |-> [u0 EXCEPT !.parent[root2] = root1,
                                        !.rank[root1] = IF rank1 > rank2 THEN rank1 ELSE rank1 + 1,
                                        !.typeInfo = [info1 EXCEPT ![root1] =
                                                          selectBetterType(type1, type2)]],
                      ok |-> TRUE]
        roots(u0, root1, root2) ==
            merge(u0, root1, root2, u0.typeInfo[root1], u0.typeInfo[root2],
                  u0.rank[root1], u0.rank[root2])
        second(f1, f2) == roots(f2.uf, f1.root, f2.root)
        first(f1) == second(f1, Find(f1.uf, id2))
    IN  first(Find(u, id1))

\* getType(id): find (with its side effects on the store) then the root's payload
GetType(u, id) ==
    LET at(f) == [uf |-> f.uf, type |-> f.uf.typeInfo[f.root]]
    IN  at(Find(u, id))

\* the payload alone, for reading in properties
TypeOf(u, id) == GetType(u, id).type

RootOf(u, id) == Find(u, id).root

\* the partition of the registered ids into equivalence classes
Partition(u) ==
    {{j \in Registered(u) : RootOf(u, j) = RootOf(u, i)} : i \in Registered(u)}

(***************************************************************************)
(* AST nodes as the parser builds them (parser.ts, toAST)                  *)
(*                                                                         *)
(* An optional grammar node is turned into an array by _iter, so a call    *)
(* with arguments has arguments = [[a1, ..., an]], an object literal has   *)
(* properties = [[p1, ..., pn]] and an else clause is [[s1, ..., sn]];     *)
(* without arguments / properties the array is [].                         *)
(***************************************************************************)
Var(n) == [type |-> "Variable", name |-> n]

Num(v) == [type |-> "NumberLiteral", value |-> v]

Bin(op, l, r) == [type |-> "BinaryExpression", operator |-> op, left |-> l, right |-> r]

Deref(e) == [type |-> "DereferenceExpression", expression |-> e]

Alloc(e) == [type |-> "AllocExpression", expression |-> e]

Addr(v) == [type |-> "AddressExpression", variable |-> v]

NullLit == [type |-> "NullLiteral"]

InputExpr == [type |-> "InputExpression"]

Call(callee, args) ==
    [type |-> "FunctionCall", callee |-> callee,
     arguments |-> IF args = <<>> THEN <<>> ELSE <<args>>]

Prop(k, v) == [key |-> k, value |-> v]

ObjLit(props) ==
    [type |-> "ObjectLiteral", properties |-> IF props = <<>> THEN <<>> ELSE <<props>>]

Access(obj, p) == [type |-> "PropertyAccess", object |-> obj, property |-> p]

Assign(v, e) == [type |-> "AssignmentStatement", variable |-> v, expression |-> e]

Output(e) == [type |-> "OutputStatement", expression |-> e]

PtrAssign(ptr, v) == [type |-> "PointerAssignmentStatement", pointer |-> ptr, value |-> v]

If(c, thenS) == [type |-> "IfStatement", condition |-> c, thenStatement |-> thenS]

IfElse(c, thenS, elseS) ==
    [type |-> "IfStatement", condition |-> c, thenStatement |-> thenS,
     elseStatement |-> <<elseS>>]

While(c, body) == [type |-> "WhileStatement", condition |-> c, body |-> body]

\* parameterless function: name() { var locals; body return ret; }
Func(name, locals, body, ret) ==
    [type |-> "FunctionDeclaration", name |-> name, parameters |-> <<>>,
     localVariables |-> locals, body |-> body, returnExpression |-> ret]

(***************************************************************************)
(* JSON.stringify(...).replace(/\s/g, "") of expressions and type items    *)
(***************************************************************************)
Q(s) == "\"" \o s \o "\""

RECURSIVE ExprJSON(_)
RECURSIVE ExprListJSON(_)
RECURSIVE PropListJSON(_)

\* [e1,e2,...] without the brackets
ExprListJSON(es) ==
    IF es = <<>> THEN ""
    ELSE IF Len(es) = 1 THEN ExprJSON(es[1])
    ELSE ExprJSON(es[1]) \o "," \o ExprListJSON(Tail(es))

PropListJSON(ps) ==
    LET one(pr) == "{\"key\":" \o Q(pr.key) \o ",\"value\":" \o ExprJSON(pr.value) \o "}"
    IN  IF ps = <<>> THEN ""
        ELSE IF Len(ps) = 1 THEN one(ps[1])
        ELSE one(ps[1]) \o "," \o PropListJSON(Tail(ps))

ExprJSON(e) ==
    CASE e.type = "Variable" ->
            "{\"type\":\"Variable\",\"name\":" \o Q(e.name) \o "}"
      [] e.type = "NumberLiteral" ->
            "{\"type\":\"NumberLiteral\",\"value\":" \o ToString(e.value) \o "}"
      [] e.type = "BinaryExpression" ->
            "{\"type\":\"BinaryExpression\",\"operator\":" \o Q(e.operator)
                \o ",\"left\":" \o ExprJSON(e.left)
                \o ",\"right\":" \o ExprJSON(e.right) \o "}"
      [] e.type = "DereferenceExpression" ->
            "{\"type\":\"DereferenceExpression\",\"expression\":" \o ExprJSON(e.expression) \o "}"
      [] e.type = "AllocExpression" ->
            "{\"type\":\"AllocExpression\",\"expression\":" \o ExprJSON(e.expression) \o "}"
      [] e.type = "AddressExpression" ->
            "{\"type\":\"AddressExpression\",\"variable\":" \o Q(e.variable) \o "}"
      [] e.type = "NullLiteral" ->
            IF Has(e, "_nullId")
            THEN "{\"type\":\"NullLiteral\",\"_nullId\":" \o ToString(e._nullId) \o "}"
            ELSE "{\"type\":\"NullLiteral\"}"
      [] e.type = "InputExpression" -> "{\"type\":\"InputExpression\"}"
      [] e.type = "FunctionCall" ->
            "{\"type\":\"FunctionCall\",\"callee\":" \o ExprJSON(e.callee)
                \o ",\"arguments\":["
                \o (IF e.arguments = <<>> THEN ""
                    ELSE "[" \o ExprListJSON(e.arguments[1]) \o "]")
                \o "]}"
      [] e.type = "PropertyAccess" ->
            "{\"type\":\"PropertyAccess\",\"object\":" \o ExprJSON(e.object)
                \o ",\"property\":" \o Q(e.property) \o "}"
      [] e.type = "ObjectLiteral" ->
            "{\"type\":\"ObjectLiteral\",\"properties\":["
                \o (IF e.properties = <<>> THEN ""
                    ELSE "[" \o PropListJSON(e.properties[1]) \o "]")
                \o "]}"

RECURSIVE TypeJSON(_)
RECURSIVE TypeListJSON(_)
RECURSIVE FieldListJSON(_)

TypeListJSON(ts) ==
    IF ts = <<>> THEN ""
    ELSE IF Len(ts) = 1 THEN TypeJSON(ts[1])
    ELSE TypeJSON(ts[1]) \o "," \o TypeListJSON(Tail(ts))

FieldListJSON(fs) ==
    LET one(f) == "{\"name\":" \o Q(f.name) \o ",\"fieldType\":" \o TypeJSON(f.fieldType) \o "}"
    IN  IF fs = <<>> THEN ""
        ELSE IF Len(fs) = 1 THEN one(fs[1])
        ELSE one(fs[1]) \o "," \o FieldListJSON(Tail(fs))

TypeJSON(t) ==
    IF Has(t, "expression") THEN "{\"expression\":" \o ExprJSON(t.expression) \o "}"
    ELSE IF Has(t, "empty") THEN "{}"
    ELSE CASE t.type = "int" -> "{\"type\":\"int\"}"
           [] t.type = "pointer" ->
                "{\"type\":\"pointer\""
                    \o (IF Has(t, "pointsTo") THEN ",\"pointsTo\":" \o TypeJSON(t.pointsTo) ELSE "")
                    \o "}"
           [] t.type = "typevar" -> "{\"type\":\"typevar\",\"name\":" \o Q(t.name) \o "}"
           [] t.type = "function" ->
                "{\"type\":\"function\",\"parameters\":[" \o TypeListJSON(t.parameters) \o "]"
                    \o (IF Has(t, "returnType") THEN ",\"returnType\":" \o TypeJSON(t.returnType) ELSE "")
                    \o "}"
           [] t.type = "recursive" ->
                "{\"type\":\"recursive\",\"variable\":" \o Q(t.variable)
                    \o ",\"body\":" \o TypeJSON(t.body) \o "}"
           [] t.type = "record" ->
                "{\"type\":\"record\",\"fields\":[" \o FieldListJSON(t.fields) \o "]}"

(***************************************************************************)
(* type-utils.ts                                                           *)
(***************************************************************************)
\* contextId "" stands for an omitted contextId
GetTypeId(item, contextId) ==
    IF Has(item, "expression")
    THEN LET baseId == "expr_" \o ExprJSON(item.expression)
         IN  IF item.expression.type = "NullLiteral"
             THEN IF Has(item.expression, "_nullId") /\ item.expression._nullId # 0
                  THEN "expr_null_" \o ToString(item.expression._nullId)
                  ELSE IF contextId # "" THEN baseId \o "_" \o contextId
                  ELSE baseId
             ELSE baseId
    ELSE "type_" \o TypeJSON(item)

\* getTypeId({ expression: e })
ExprId(e) == GetTypeId(Deferred(e), "")

RECURSIVE ToConcreteType(_)
ToConcreteType(item) ==
    LET \* a nested CustomType is kept as it is, anything else is converted
        inner(x) == IF Has(x, "expression") THEN x ELSE ToConcreteType(x)

        convFields(fs) ==
            LET RECURSIVE go(_)
                go(k) == IF k > Len(fs) THEN <<>>
                         ELSE LET ft == inner(fs[k].fieldType)
                              IN  IF IsType(ft)
                                  THEN <<Field(fs[k].name, ft)>> \o go(k + 1)
                                  ELSE go(k + 1)
            IN  go(1)
        convParams(ps) ==
            LET RECURSIVE go(_)
                go(k) == IF k > Len(ps) THEN <<>>
                         ELSE LET pt == ToConcreteType(ps[k])
                              IN  IF IsType(pt) THEN <<pt>> \o go(k + 1) ELSE go(k + 1)
            IN  go(1)
    IN  IF Has(item, "empty") THEN NoType
        ELSE IF Tag(item) = "int" THEN IntT
        ELSE IF Tag(item) = "pointer"
        THEN IF Has(item, "pointsTo") /\ IsType(inner(item.pointsTo))
             THEN PtrT(inner(item.pointsTo))
             ELSE PtrNone
        ELSE IF Has(item, "expression") /\ Tag(item.expression) = "Variable"
                /\ IsGreekName(item.expression.name)
        THEN TypeVarT(item.expression.name)
        ELSE IF Tag(item) = "function"
        THEN IF Has(item, "returnType") /\ IsType(inner(item.returnType))
             THEN FnT(convParams(item.parameters), inner(item.returnType))
             ELSE FnNoRet(convParams(item.parameters))
        ELSE IF Tag(item) = "recursive"
        THEN RecursiveT(item.variable, inner(item.body))
        ELSE IF Tag(item) = "record"
        THEN RecordT(convFields(item.fields))
        ELSE NoType

(***************************************************************************)
(* TypeVariableGenerator: the n-th fresh name of a run (n = 0, 1, ...)     *)
(***************************************************************************)
NewTypeVarName(n) ==
    IF n < Len(GreekLetters) THEN GreekLetters[n + 1]
    ELSE GreekLetters[(n % Len(GreekLetters)) + 1] \o ToString(n \div Len(GreekLetters))

(***************************************************************************)
(* ConstraintCollector (constraint-collector.ts)                            *)
(*                                                                         *)
(* The collector state cs holds constraints, the number tv of type         *)
(* variables generated so far and nullLiteralCounter; currentFunction is   *)
(* passed along as cur and the symbol table st is the set of its keys      *)
(* (every key maps to the Variable node of that name).                     *)
(***************************************************************************)
Constraint(origin, left, right) == [originAST |-> origin, left |-> left, right |-> right]

EmptyCollector == [constraints |-> <<>>, tv |-> 0, nullLiteralCounter |-> 0]

Push(cs, c) == [cs EXCEPT !.constraints = Append(@, c)]

buildSymbolTable(func) ==
    {func.parameters[i] : i \in 1..Len(func.parameters)}
        \cup {func.localVariables[i] : i \in 1..Len(func.localVariables)}

\* { expression: symbolTable.get(name)! }
SymbolOperand(st, name) == IF name \in st THEN Deferred(Var(name)) ELSE EmptyItem

addNumberLiteralConstraint(cs, e) == Push(cs, Constraint(e, <<Deferred(e)>>, <<IntT>>))

addInputExpressionConstraint(cs, e) == Push(cs, Constraint(e, <<Deferred(e)>>, <<IntT>>))

addAddressExpressionConstraint(cs, e, st) ==
    Push(cs, Constraint(e, <<Deferred(e)>>, <<PtrT(SymbolOperand(st, e.variable))>>))

\* addNullLiteralConstraint that never advances nullLiteralCounter
addNullLiteralConstraintNoCount(cs, e) ==
    LET fresh == Var(NewTypeVarName(cs.tv))
        n == cs.nullLiteralCounter
        uniqueNullExpression == [type |-> "NullLiteral", _nullId |-> n]
    IN  [constraints |-> Append(cs.constraints,
                                Constraint(e, <<Deferred(uniqueNullExpression)>>,
                                           <<PtrT(Deferred(fresh))>>)),
         tv |-> cs.tv + 1,
         nullLiteralCounter |-> n]

addNullLiteralConstraint(cs, e) ==
    LET fresh == Var(NewTypeVarName(cs.tv))
        n == cs.nullLiteralCounter + 1
        uniqueNullExpression == [type |-> "NullLiteral", _nullId |-> n]
    IN  [constraints |-> Append(cs.constraints,
                                Constraint(e, <<Deferred(uniqueNullExpression)>>,
                                           <<PtrT(Deferred(fresh))>>)),
         tv |-> cs.tv + 1,
         nullLiteralCounter |-> n]

addPropertyAccessConstraint(cs, e) ==
    LET fieldTypeVar == NewTypeVarName(cs.tv)
    IN  [Push(cs, Constraint(e, <<Deferred(e)>>, <<Deferred(Var(fieldTypeVar))>>))
            EXCEPT !.tv = cs.tv + 1]

addObjectLiteralConstraint(cs, e) ==
    LET flat == IF e.properties = <<>> THEN <<>> ELSE e.properties[1]
        fields == [i \in 1..Len(flat) |-> Field(flat[i].key, Deferred(flat[i].value))]
    IN  Push(cs, Constraint(e, <<Deferred(e)>>, <<RecordT(fields)>>))

\* the part of addFunctionCallConstraint after the sub-expressions were walked
pushFunctionCallConstraint(cs, e, cur) ==
    LET calleeIsVar == e.callee.type = "Variable"
        selfCall == calleeIsVar /\ e.callee.name = cur
        rightSide ==
            IF ~calleeIsVar THEN <<>>
            ELSE IF selfCall THEN <<Deferred(Var("result"))>>
            ELSE <<Deferred(Var(NewTypeVarName(cs.tv)))>>
        cs1 == [Push(cs, Constraint(e, <<Deferred(e)>>, rightSide))
                    EXCEPT !.tv = IF calleeIsVar /\ ~selfCall THEN cs.tv + 1 ELSE cs.tv]
    IN  IF e.arguments # <<>> /\ calleeIsVar /\ e.callee.name = "process"
           /\ Len(e.arguments[1]) >= 1
        THEN Push(cs1, Constraint(e, <<Deferred(Var("ptr"))>>, <<Deferred(e.arguments[1][1])>>))
        ELSE cs1

RECURSIVE addExpressionConstraint(_, _, _, _)
addExpressionConstraint(cs, e, st, cur) ==
    CASE e.type = "NumberLiteral" -> addNumberLiteralConstraint(cs, e)
      [] e.type = "BinaryExpression" ->
            LET c1 == addExpressionConstraint(cs, e.left, st, cur)
                c2 == addExpressionConstraint(c1, e.right, st, cur)
            IN  IF e.operator = "=="
                THEN Push(c2, Constraint(e, <<Deferred(e.left), Deferred(e)>>,
                                            <<Deferred(e.right), IntT>>))
                ELSE Push(c2, Constraint(e, <<Deferred(e)>>, <<IntT>>))
      [] e.type = "InputExpression" -> addInputExpressionConstraint(cs, e)
      [] e.type = "AllocExpression" ->
            Push(addExpressionConstraint(cs, e.expression, st, cur),
                 Constraint(e, <<Deferred(e)>>, <<PtrT(Deferred(e.expression))>>))
      [] e.type = "AddressExpression" -> addAddressExpressionConstraint(cs, e, st)
      [] e.type = "DereferenceExpression" -> addExpressionConstraint(cs, e.expression, st, cur)
      [] e.type = "NullLiteral" -> addNullLiteralConstraint(cs, e)
      [] e.type = "Variable" -> cs
      [] e.type = "FunctionCall" ->
            \* arguments.forEach walks the outer array, whose only element is the
            \* inner array of arguments: it has no type, so nothing is collected
            pushFunctionCallConstraint(addExpressionConstraint(cs, e.callee, st, cur), e, cur)
      [] e.type = "ObjectLiteral" ->
            LET flat == IF e.properties = <<>> THEN <<>> ELSE e.properties[1]
                RECURSIVE walk(_, _)
                walk(c, k) == IF k > Len(flat) THEN c
                              ELSE walk(addExpressionConstraint(c, flat[k].value, st, cur), k + 1)
            IN  addObjectLiteralConstraint(walk(cs, 1), e)
      [] e.type = "PropertyAccess" ->
            addPropertyAccessConstraint(addExpressionConstraint(cs, e.object, st, cur), e)
      [] OTHER -> cs

\* processAssignmentStatement that collects the expression but pushes no constraint
\* for the assignment itself
processAssignmentStatementNoConstraint(cs, stmt, st, cur) ==
    addExpressionConstraint(cs, stmt.expression, st, cur)

processAssignmentStatement(cs, stmt, st, cur) ==
    LET c1 == addExpressionConstraint(cs, stmt.expression, st, cur)
        rightExpression ==
            IF stmt.expression.type = "NullLiteral"
            THEN [type |-> "NullLiteral", _nullId |-> c1.nullLiteralCounter]
            ELSE stmt.expression
    IN  Push(c1, Constraint(stmt, <<Deferred(Var(stmt.variable))>>, <<Deferred(rightExpression)>>))

\* processPointerAssignmentStatement that constrains the pointer itself, not *pointer
processPointerAssignmentStatementOnPointer(cs, stmt, st, cur) ==
    LET c1 == addExpressionConstraint(cs, stmt.pointer, st, cur)
        c2 == addExpressionConstraint(c1, stmt.value, st, cur)
    IN  Push(c2, Constraint(stmt, <<Deferred(stmt.pointer)>>, <<Deferred(stmt.value)>>))

processPointerAssignmentStatement(cs, stmt, st, cur) ==
    LET c1 == addExpressionConstraint(cs, stmt.pointer, st, cur)
        c2 == addExpressionConstraint(c1, stmt.value, st, cur)
    IN  Push(c2, Constraint(stmt, <<Deferred(Deref(stmt.pointer))>>, <<Deferred(stmt.value)>>))

RECURSIVE processStatements(_, _, _, _)
processStatements(cs, stmts, st, cur) ==
    IF stmts = <<>> THEN cs
    ELSE LET stmt == Head(stmts)
             condOnly == Push(addExpressionConstraint(cs, stmt.condition, st, cur),
                              Constraint(stmt, <<Deferred(stmt.condition)>>, <<IntT>>))
             c1 ==
                CASE stmt.type = "AssignmentStatement" ->
                        processAssignmentStatement(cs, stmt, st, cur)
                  [] stmt.type = "OutputStatement" ->
                        Push(addExpressionConstraint(cs, stmt.expression, st, cur),
                             Constraint(stmt, <<Deferred(stmt.expression)>>, <<IntT>>))
                  [] stmt.type = "IfStatement" ->
                        LET afterThen == processStatements(condOnly, stmt.thenStatement, st, cur)
                        IN  IF Has(stmt, "elseStatement")
                            THEN \* [[...]] is flattened before it is processed
                                 processStatements(afterThen, stmt.elseStatement[1], st, cur)
                            ELSE afterThen
                  [] stmt.type = "WhileStatement" ->
                        processStatements(condOnly, stmt.body, st, cur)
                  [] stmt.type = "PointerAssignmentStatement" ->
                        processPointerAssignmentStatement(cs, stmt, st, cur)
                  [] OTHER -> cs
         IN  processStatements(c1, Tail(stmts), st, cur)

\* collectAssignedVariables: the else clause is the nested array [[...]], whose
\* single element is an array and matches no case of the switch
RECURSIVE collectAssignedVariables(_)
collectAssignedVariables(stmts) ==
    IF stmts = <<>> THEN {}
    ELSE LET stmt == Head(stmts)
             here ==
                CASE stmt.type = "AssignmentStatement" -> {stmt.variable}
                  [] stmt.type = "IfStatement" -> collectAssignedVariables(stmt.thenStatement)
                  [] stmt.type = "WhileStatement" -> collectAssignedVariables(stmt.body)
                  [] OTHER -> {}
         IN  here \cup collectAssignedVariables(Tail(stmts))

addUninitializedVariableConstraints(cs, func, st) ==
    LET assigned == collectAssignedVariables(func.body)
        localVars == func.localVariables
        RECURSIVE go(_, _)
        go(c, k) ==
            IF k > Len(localVars) THEN c
            ELSE IF localVars[k] \in assigned \/ localVars[k] \notin st THEN go(c, k + 1)
            ELSE go([Push(c, Constraint(func, <<Deferred(Var(localVars[k]))>>,
                                        <<PtrT(Deferred(Var(NewTypeVarName(c.tv))))>>))
                        EXCEPT !.tv = c.tv + 1],
                    k + 1)
    IN  go(cs, 1)

\* hasRecursiveCall: descends into every field and array of the node
RECURSIVE hasRecursiveCall(_, _)
RECURSIVE hasRecursiveCallList(_, _)

hasRecursiveCallList(nodes, functionName) ==
    \E i \in 1..Len(nodes) : hasRecursiveCall(nodes[i], functionName)

hasRecursiveCall(node, functionName) ==
    CASE node.type = "FunctionCall" ->
            \/ (node.callee.type = "Variable" /\ node.callee.name = functionName)
            \/ hasRecursiveCall(node.callee, functionName)
            \/ (node.arguments # <<>> /\ hasRecursiveCallList(node.arguments[1], functionName))
      [] node.type = "BinaryExpression" ->
            hasRecursiveCall(node.left, functionName) \/ hasRecursiveCall(node.right, functionName)
      [] node.type \in {"DereferenceExpression", "AllocExpression",
                        "AssignmentStatement", "OutputStatement"} ->
            hasRecursiveCall(node.expression, functionName)
      [] node.type = "PropertyAccess" -> hasRecursiveCall(node.object, functionName)
      [] node.type = "ObjectLiteral" ->
            /\ node.properties # <<>>
            /\ \E i \in 1..Len(node.properties[1]) :
                    hasRecursiveCall(node.properties[1][i].value, functionName)
      [] node.type = "PointerAssignmentStatement" ->
            hasRecursiveCall(node.pointer, functionName) \/ hasRecursiveCall(node.value, functionName)
      [] node.type = "IfStatement" ->
            \/ hasRecursiveCall(node.condition, functionName)
            \/ hasRecursiveCallList(node.thenStatement, functionName)
            \/ (Has(node, "elseStatement")
                    /\ hasRecursiveCallList(node.elseStatement[1], functionName))
      [] node.type = "WhileStatement" ->
            \/ hasRecursiveCall(node.condition, functionName)
            \/ hasRecursiveCallList(node.body, functionName)
      [] OTHER -> FALSE

isRecursiveFunction(func) ==
    \/ hasRecursiveCallList(func.body, func.name)
    \/ hasRecursiveCall(func.returnExpression, func.name)

\* the FunctionDeclaration constraint pushed by collectFunctionConstraints
functionConstraint(cs, func, st) ==
    LET parameters == [i \in 1..Len(func.parameters) |-> SymbolOperand(st, func.parameters[i])]
        fnType == FnT(parameters, Deferred(func.returnExpression))
    IN  IF isRecursiveFunction(func)
        THEN [Push(cs, Constraint(func, <<Deferred(Var(func.name))>>,
                                  <<RecursiveT(NewTypeVarName(cs.tv), fnType)>>))
                EXCEPT !.tv = cs.tv + 1]
        ELSE Push(cs, Constraint(func, <<Deferred(Var(func.name))>>, <<fnType>>))

collectFunctionConstraints(cs, func) ==
    LET st == buildSymbolTable(func)
        c1 == addExpressionConstraint(cs, func.returnExpression, st, func.name)
        c2 == functionConstraint(c1, func, st)
        c3 == addUninitializedVariableConstraints(c2, func, st)
    IN  processStatements(c3, func.body, st, func.name)

collectTypeConstraints(ast) ==
    LET RECURSIVE go(_, _)
        go(cs, k) == IF k > Len(ast) THEN cs
                     ELSE go(collectFunctionConstraints(cs, ast[k]), k + 1)
    IN  go(EmptyCollector, 1).constraints

(***************************************************************************)
(* TipTypeChecker.performUnification (tip-type-check.ts)                   *)
(*                                                                         *)
(* A solver state ss is [uf, errors].  Errors are records naming the kind  *)
(* of the message and the names the message text contains.                 *)
(***************************************************************************)
ContextId(i) == "constraint_" \o ToString(i - 1)

OriginType(c) == c.originAST.type

\* s.includes(sub)
Includes(s, sub) ==
    \E i \in 1..(Len(s) - Len(sub) + 1) : SubSeq(s, i, i + Len(sub) - 1) = sub

registerTypesInUnionFind(cons, u) ==
    LET RECURSIVE items(_, _, _, _)
        items(st, its, k, ctx) ==
            IF Evaluated(st) /\ k > Len(its) THEN st
            ELSE items(MakeSet(st, GetTypeId(its[k], ctx), ToConcreteType(its[k])), its, k + 1, ctx)
        RECURSIVE go(_, _)
        go(st, i) ==
            IF Evaluated(st) /\ i > Len(cons) THEN st
            ELSE go(items(items(st, cons[i].left, 1, ContextId(i)),
                          cons[i].right, 1, ContextId(i)),
                    i + 1)
    IN  go(u, 1)

ConflictError(origin, leftId, rightId) ==
    [kind |-> "UnificationConflict", origin |-> origin, left |-> leftId, right |-> rightId]

\* one union whose failure is reported with the error err
UnionOrError(ss, id1, id2, err) ==
    LET result(r) == [uf |-> r.uf, errors |-> IF r.ok THEN ss.errors ELSE Append(ss.errors, err)]
    IN  result(Union(ss.uf, id1, id2))

\* unifyConstraintPairs that stops at the end of the shorter side
unifyConstraintPairsShorterSide(ss, c, leftIds, rightIds) ==
    LET minLength == Min2(Len(leftIds), Len(rightIds))
        RECURSIVE go(_, _)
        go(st, i) ==
            IF i >= minLength THEN st
            ELSE LET leftId == leftIds[(i % Len(leftIds)) + 1]
                     rightId == rightIds[(i % Len(rightIds)) + 1]
                 IN  go(UnionOrError(st, leftId, rightId,
                                     ConflictError(OriginType(c), leftId, rightId)),
                        i + 1)
    IN  go(ss, 0)

unifyConstraintPairs(ss, c, leftIds, rightIds) ==
    LET maxLength == Max2(Len(leftIds), Len(rightIds))
        RECURSIVE go(_, _)
        go(st, i) ==
            IF i >= maxLength THEN st
            ELSE IF Len(leftIds) = 0 \/ Len(rightIds) = 0 THEN go(st, i + 1)
            ELSE LET leftId == leftIds[(i % Len(leftIds)) + 1]
                     rightId == rightIds[(i % Len(rightIds)) + 1]
                 IN  go(UnionOrError(st, leftId, rightId,
                                     ConflictError(OriginType(c), leftId, rightId)),
                        i + 1)
    IN  go(ss, 0)

handleBinaryExpressionConstraints(ss, c, leftIds) ==
    IF OriginType(c) # "BinaryExpression" THEN ss
    ELSE IF c.originAST.operator = "==" /\ Len(leftIds) >= 2
    THEN UnionOrError(ss, leftIds[1], leftIds[2],
                      ConflictError("EqualityOperands", leftIds[1], leftIds[2]))
    ELSE IF Len(leftIds) >= 3
    THEN LET result(s1) ==
                 UnionOrError(s1, leftIds[1], leftIds[3],
                              ConflictError("BinaryResult", leftIds[1], leftIds[3]))
         IN  result(UnionOrError(ss, leftIds[1], leftIds[2],
                                 ConflictError("BinaryOperands", leftIds[1], leftIds[2])))
    ELSE ss

\* one iteration (constraint number i, counted from 1) of the loop of unifyConstraints
unifyConstraint(ss, cons, i) ==
    LET c == cons[i]
        ctx == IF OriginType(c) = "AssignmentStatement" THEN "" ELSE ContextId(i)
        unify(leftIds, rightIds) ==
            handleBinaryExpressionConstraints(unifyConstraintPairs(ss, c, leftIds, rightIds),
                                              c, leftIds)
    IN  unify([k \in 1..Len(c.left) |-> GetTypeId(c.left[k], ctx)],
              [k \in 1..Len(c.right) |-> GetTypeId(c.right[k], ctx)])

\* first constraint (index) that stems from the declaration of the function, 0 if none
DeclarationIndex(cons, functionName) ==
    LET hits == {k \in 1..Len(cons) :
                    OriginType(cons[k]) = "FunctionDeclaration"
                    /\ cons[k].originAST.name = functionName}
    IN  IF hits = {} THEN 0 ELSE CHOOSE k \in hits : \A j \in hits : k <= j

\* functionReturnTypes: the return type id of the last function / recursive item per name
FunctionReturnTypeId(cons, functionName) ==
    LET ret(item) == IF item.type = "recursive"
                     THEN (IF Has(item.body, "returnType") THEN item.body.returnType ELSE EmptyItem)
                     ELSE (IF Has(item, "returnType") THEN item.returnType ELSE EmptyItem)
        hits == {<<k, j>> \in (1..Len(cons)) \X (1..2) :
                    /\ OriginType(cons[k]) = "FunctionDeclaration"
                    /\ cons[k].originAST.name = functionName
                    /\ j <= Len(cons[k].right)
                    /\ Tag(cons[k].right[j]) \in {"function", "recursive"}
                    /\ Has(ret(cons[k].right[j]), "expression")}
        lastHit == CHOOSE h \in hits :
                        \A g \in hits : g[1] < h[1] \/ (g[1] = h[1] /\ g[2] <= h[2])
    IN  IF hits = {} THEN ""
        ELSE ExprId(ret(cons[lastHit[1]].right[lastHit[2]]).expression)

linkFunctionCallsToReturnTypes(ss, cons) ==
    LET \* the call against the return expression of the declaration number d
        returned(s1, funcCallId, d) ==
            IF d = 0 THEN s1
            ELSE [s1 EXCEPT !.uf = Union(s1.uf, funcCallId,
                                         ExprId(cons[d].originAST.returnExpression)).uf]
        link(st, functionName, returnTypeId, funcCallId) ==
            IF returnTypeId = "" THEN st
            ELSE returned(UnionOrError(st, funcCallId, returnTypeId,
                                       [kind |-> "ReturnTypeMismatch", name |-> functionName]),
                          funcCallId, DeclarationIndex(cons, functionName))
        step(st, c) ==
            IF OriginType(c) # "FunctionCall" \/ c.originAST.callee.type # "Variable" THEN st
            ELSE link(st, c.originAST.callee.name,
                      FunctionReturnTypeId(cons, c.originAST.callee.name), ExprId(c.originAST))
        RECURSIVE go(_, _)
        go(st, i) == IF Evaluated(st) /\ i > Len(cons) THEN st ELSE go(step(st, cons[i]), i + 1)
    IN  go(ss, 1)

linkFunctionParametersToArguments(ss, cons) ==
    LET step(st, c) ==
            IF OriginType(c) # "FunctionCall" \/ c.originAST.callee.type # "Variable" THEN st
            ELSE LET functionName == c.originAST.callee.name
                     args == IF c.originAST.arguments = <<>> THEN <<>> ELSE c.originAST.arguments[1]
                     d == DeclarationIndex(cons, functionName)
                     parameters == cons[d].originAST.parameters
                     RECURSIVE pairs(_, _)
                     pairs(s1, i) ==
                        IF i > Min2(Len(parameters), Len(args)) THEN s1
                        ELSE pairs(UnionOrError(s1, ExprId(Var(parameters[i])), ExprId(args[i]),
                                                [kind |-> "ParameterMismatch",
                                                 name |-> functionName, param |-> parameters[i]]),
                                   i + 1)
                 IN  IF d = 0 THEN st ELSE pairs(st, 1)
        RECURSIVE go(_, _)
        go(st, i) == IF Evaluated(st) /\ i > Len(cons) THEN st ELSE go(step(st, cons[i]), i + 1)
    IN  go(ss, 1)

\* getAllGroups(): find on every id in insertion order; the groups in the order
\* their roots are first met, each with its members in insertion order
getAllGroups(u) ==
    LET RECURSIVE go(_, _, _)
        \* if (!groups.has(root)) groups.set(root, []); groups.get(root).push(id)
        found(f, k, acc) ==
            IF \E g \in 1..Len(acc) : acc[g].rep = f.root
            THEN go(f.uf, k + 1,
                    [acc EXCEPT ![CHOOSE g \in 1..Len(acc) : acc[g].rep = f.root].members =
                                    Append(@, u.order[k])])
            ELSE go(f.uf, k + 1, Append(acc, [rep |-> f.root, members |-> <<u.order[k]>>]))
        go(st, k, acc) ==
            IF k > Len(u.order) THEN [uf |-> st, groups |-> acc]
            ELSE found(Find(st, u.order[k]), k, acc)
    IN  go(u, 1, <<>>)

\* the field map of an object literal: key -> id of the value (a later key wins)
FieldMapOf(objLiteral) ==
    LET flat == IF objLiteral.properties = <<>> THEN <<>> ELSE objLiteral.properties[1]
        keys == {flat[i].key : i \in 1..Len(flat)}
        lastOf(k) == CHOOSE i \in 1..Len(flat) :
                        flat[i].key = k /\ \A j \in (i + 1)..Len(flat) : flat[j].key # k
    IN  [k \in keys |-> ExprId(flat[lastOf(k)].value)]

\* objectLiteralFields: id of the literal -> field map (a later literal wins)
objectLiteralFields(cons) ==
    LET lits == {k \in 1..Len(cons) : OriginType(cons[k]) = "ObjectLiteral"}
        ids == {ExprId(cons[k].originAST) : k \in lits}
        lastOf(id) == CHOOSE k \in lits :
                        ExprId(cons[k].originAST) = id
                        /\ \A j \in lits : ExprId(cons[j].originAST) = id => j <= k
    IN  [id \in ids |-> FieldMapOf(cons[lastOf(id)].originAST)]

\* makeSet(id, int) for the Variable operands on the right of constraint number i
setRightVariables(u, cons, i, t) ==
    LET RECURSIVE go(_, _)
        go(st, k) ==
            IF k > Len(cons[i].right) THEN st
            ELSE IF Has(cons[i].right[k], "expression")
                    /\ cons[i].right[k].expression.type = "Variable"
            THEN go(MakeSet(st, GetTypeId(cons[i].right[k], ""), t), k + 1)
            ELSE go(st, k + 1)
    IN  go(u, 1)

\* the body of the loop of linkPropertyAccessToFieldTypes for constraint number i
linkPropertyAccess(ss, cons, i) ==
    LET propAccess == cons[i].originAST
        objectExpr == propAccess.object
        propertyName == propAccess.property
        \* the object literals assigned directly to the variable
        direct(st, fieldsOf, propAccessId, objLiteralId) ==
            IF objLiteralId \notin DOMAIN fieldsOf THEN st
            ELSE IF propertyName \in DOMAIN fieldsOf[objLiteralId]
            THEN UnionOrError(st, propAccessId, fieldsOf[objLiteralId][propertyName],
                              [kind |-> "PropertyAccessMismatch", name |-> propertyName])
            ELSE [st EXCEPT !.errors = Append(@, [kind |-> "MissingField", name |-> propertyName])]
        RECURSIVE directAll(_, _, _, _)
        directAll(st, k, fieldsOf, propAccessId) ==
            IF Evaluated(st) /\ k > Len(cons) THEN st
            ELSE IF OriginType(cons[k]) = "AssignmentStatement"
                    /\ cons[k].originAST.variable = objectExpr.name
                    /\ cons[k].originAST.expression.type = "ObjectLiteral"
            THEN directAll(direct(st, fieldsOf, propAccessId,
                                  ExprId(cons[k].originAST.expression)),
                           k + 1, fieldsOf, propAccessId)
            ELSE directAll(st, k + 1, fieldsOf, propAccessId)
        \* the object literals in the class of the variable
        typed(s1, propAccessId, r, ft) ==
            IF ~r.ok
            THEN [uf |-> r.uf,
                  errors |-> Append(s1.errors, [kind |-> "PropertyAccessMismatchGroup",
                                                name |-> propertyName])]
            ELSE IF IsType(ft.type)
            THEN [uf |-> MakeSet(ft.uf, propAccessId, ft.type), errors |-> s1.errors]
            ELSE [uf |-> setRightVariables(MakeSet(ft.uf, propAccessId, IntT), cons, i, IntT),
                  errors |-> s1.errors]
        united(s1, propAccessId, fieldValueId, r) ==
            typed(s1, propAccessId, r, GetType(r.uf, fieldValueId))
        field(s1, gu, propAccessId, fieldValueId) ==
            united(s1, propAccessId, fieldValueId, Union(gu, propAccessId, fieldValueId))
        inGroup(s1, fieldsOf, propAccessId, gu, members) ==
            LET hits == {k \in 1..Len(members) :
                            /\ members[k] \in DOMAIN fieldsOf
                            /\ Includes(members[k], "\"type\":\"ObjectLiteral\"")
                            /\ propertyName \in DOMAIN fieldsOf[members[k]]}
            IN  IF hits = {} THEN [s1 EXCEPT !.uf = gu]
                ELSE field(s1, gu, propAccessId,
                           fieldsOf[members[CHOOSE k \in hits : \A j \in hits : k <= j]][propertyName])
        grouped(s1, fieldsOf, propAccessId, gg, mine) ==
            inGroup(s1, fieldsOf, propAccessId, gg.uf,
                    IF mine = {} THEN <<>> ELSE gg.groups[CHOOSE g \in mine : TRUE].members)
        groups(s1, fieldsOf, propAccessId, objectRoot, gg) ==
            grouped(s1, fieldsOf, propAccessId, gg,
                    {g \in 1..Len(gg.groups) : gg.groups[g].rep = objectRoot})
        rooted(s1, fieldsOf, propAccessId, f) ==
            groups(s1, fieldsOf, propAccessId, f.root, getAllGroups(f.uf))
        linked(s1, fieldsOf, propAccessId) ==
            rooted(s1, fieldsOf, propAccessId, Find(s1.uf, ExprId(objectExpr)))
        start(fieldsOf, propAccessId) ==
            linked(directAll(ss, 1, fieldsOf, propAccessId), fieldsOf, propAccessId)
    IN  IF objectExpr.type # "Variable" THEN ss
        ELSE start(objectLiteralFields(cons), ExprId(propAccess))

linkPropertyAccessToFieldTypes(ss, cons) ==
    LET RECURSIVE go(_, _)
        go(st, i) ==
            IF Evaluated(st) /\ i > Len(cons) THEN st
            ELSE IF OriginType(cons[i]) = "PropertyAccess"
            THEN go(linkPropertyAccess(st, cons, i), i + 1)
            ELSE go(st, i + 1)
    IN  go(ss, 1)

\* resolveRemainingTypeVariables that takes the field type as it is stored, a
\* deferred NumberLiteral included
resolveRemainingTypeVariablesKeepDeferred(ss, cons) ==
    LET field(st, i, ot, k) ==
            LET ftype == ot.type.fields[k].fieldType
                fieldType ==
                    ftype
            IN  IF k = 0 \/ ~IsType(fieldType) THEN [st EXCEPT !.uf = ot.uf]
                ELSE [st EXCEPT !.uf = setRightVariables(
                                          MakeSet(ot.uf, ExprId(cons[i].originAST), fieldType),
                                          cons, i, fieldType)]
        object(st, i, ot) ==
            field(st, i, ot,
                  IF Tag(ot.type) = "record"
                  THEN FieldIndex(ot.type.fields, cons[i].originAST.property) ELSE 0)
        step(st, i) ==
            IF cons[i].originAST.object.type # "Variable" THEN st
            ELSE object(st, i, GetType(st.uf, ExprId(cons[i].originAST.object)))
        RECURSIVE go(_, _)
        go(st, i) ==
            IF Evaluated(st) /\ i > Len(cons) THEN st
            ELSE IF OriginType(cons[i]) = "PropertyAccess" THEN go(step(st, i), i + 1)
            ELSE go(st, i + 1)
    IN  go(ss, 1)

resolveRemainingTypeVariables(ss, cons) ==
    LET field(st, i, ot, k) ==
            LET ftype == ot.type.fields[k].fieldType
                fieldType ==
                    IF Has(ftype, "expression")
                    THEN (IF ftype.expression.type = "NumberLiteral" THEN IntT ELSE NoType)
                    ELSE ftype
            IN  IF k = 0 \/ ~IsType(fieldType) THEN [st EXCEPT !.uf = ot.uf]
                ELSE [st EXCEPT !.uf = setRightVariables(
                                          MakeSet(ot.uf, ExprId(cons[i].originAST), fieldType),
                                          cons, i, fieldType)]
        object(st, i, ot) ==
            field(st, i, ot,
                  IF Tag(ot.type) = "record"
                  THEN FieldIndex(ot.type.fields, cons[i].originAST.property) ELSE 0)
        step(st, i) ==
            IF cons[i].originAST.object.type # "Variable" THEN st
            ELSE object(st, i, GetType(st.uf, ExprId(cons[i].originAST.object)))
        RECURSIVE go(_, _)
        go(st, i) ==
            IF Evaluated(st) /\ i > Len(cons) THEN st
            ELSE IF OriginType(cons[i]) = "PropertyAccess" THEN go(step(st, i), i + 1)
            ELSE go(st, i + 1)
    IN  go(ss, 1)

(***************************************************************************)
(* TypeValidator (type-validator.ts)                                       *)
(*                                                                         *)
(* A validator state vs is [uf, errors]: the queries of the validator go   *)
(* through find, which registers unseen ids and compresses paths.          *)
(***************************************************************************)
NameOr(e, dflt) == IF Has(e, "name") /\ e.name # "" THEN e.name ELSE dflt

AddError(vs, u, err) == [uf |-> u, errors |-> Append(vs.errors, err)]

NestedDerefError(name, actual) ==
    [kind |-> "NestedDereferenceOfNonPointer", name |-> name, actual |-> actual]

validateSingleDereference(vs, dereferenceExpr) ==
    LET targetExpr == dereferenceExpr.expression
        \* **ptr
        innerTargetExpr == targetExpr.expression
        exprName == NameOr(innerTargetExpr, "expression")
        deferred(pt) ==
            IF IsType(pt.type) /\ Tag(pt.type) # "pointer"
            THEN AddError(vs, pt.uf, NestedDerefError(exprName, "pointer(" \o Tag(pt.type) \o ")"))
            ELSE [vs EXCEPT !.uf = pt.uf]
        nested(it) ==
            IF ~IsType(it.type) THEN [vs EXCEPT !.uf = it.uf]
            ELSE IF Tag(it.type) # "pointer"
            THEN AddError(vs, it.uf, NestedDerefError(exprName, Tag(it.type)))
            ELSE IF ~Has(it.type, "pointsTo") THEN [vs EXCEPT !.uf = it.uf]
            ELSE IF Has(it.type.pointsTo, "expression")
            THEN deferred(GetType(it.uf, GetTypeId(it.type.pointsTo, "")))
            ELSE IF Tag(it.type.pointsTo) # "pointer"
            THEN AddError(vs, it.uf,
                          NestedDerefError(exprName, "pointer(" \o Tag(it.type.pointsTo) \o ")"))
            ELSE [vs EXCEPT !.uf = it.uf]
        \* *ptr
        single(tt) ==
            IF IsType(tt.type) /\ Tag(tt.type) # "pointer"
            THEN AddError(vs, tt.uf, [kind |-> "DereferenceOfNonPointer",
                                      name |-> NameOr(targetExpr, "expression"),
                                      actual |-> Tag(tt.type)])
            ELSE [vs EXCEPT !.uf = tt.uf]
    IN  IF dereferenceExpr.type # "DereferenceExpression" THEN vs
        ELSE IF targetExpr.type = "DereferenceExpression"
        THEN nested(GetType(vs.uf, ExprId(innerTargetExpr)))
        ELSE single(GetType(vs.uf, ExprId(targetExpr)))

\* validateDereferenceExpressions that looks at return expressions only
validateDereferenceExpressionsReturnsOnly(vs0, cons) ==
    LET returned(vs, item) ==
            IF Tag(item) = "function" /\ Has(item, "returnType")
               /\ Has(item.returnType, "expression")
               /\ item.returnType.expression.type = "DereferenceExpression"
            THEN validateSingleDereference(vs, item.returnType.expression) ELSE vs
        RECURSIVE items(_, _, _)
        items(vs, c, k) ==
            IF k > Len(c.right) THEN vs
            ELSE IF OriginType(c) = "FunctionDeclaration"
            THEN items(returned(vs, c.right[k]), c, k + 1)
            ELSE vs
        RECURSIVE go(_, _)
        go(vs, i) == IF Evaluated(vs) /\ i > Len(cons) THEN vs ELSE go(items(vs, cons[i], 1), i + 1)
    IN  go(vs0, 1)

validateDereferenceExpressions(vs0, cons) ==
    LET assigned(vs, item) ==
            IF Has(item, "expression") /\ item.expression.type = "DereferenceExpression"
            THEN validateSingleDereference(vs, item.expression) ELSE vs
        returned(vs, item) ==
            IF Tag(item) = "function" /\ Has(item, "returnType")
               /\ Has(item.returnType, "expression")
               /\ item.returnType.expression.type = "DereferenceExpression"
            THEN validateSingleDereference(vs, item.returnType.expression) ELSE vs
        RECURSIVE items(_, _, _)
        items(vs, c, k) ==
            IF k > Len(c.right) THEN vs
            ELSE IF OriginType(c) = "AssignmentStatement"
            THEN items(assigned(vs, c.right[k]), c, k + 1)
            ELSE IF OriginType(c) = "FunctionDeclaration"
            THEN items(returned(vs, c.right[k]), c, k + 1)
            ELSE vs
        RECURSIVE go(_, _)
        go(vs, i) == IF Evaluated(vs) /\ i > Len(cons) THEN vs ELSE go(items(vs, cons[i], 1), i + 1)
    IN  go(vs0, 1)

validatePointerAssignments(vs0, cons) ==
    LET judged(vs, ptrExpr, rightItem, vt, u, expectedType) ==
            IF Tag(vt.type) # Tag(expectedType)
            THEN AddError(vs, u, [kind |-> "PointerAssignmentMismatch",
                                  ptr |-> NameOr(ptrExpr, "pointer"),
                                  value |-> NameOr(rightItem.expression, "value"),
                                  expected |-> Tag(expectedType),
                                  actual |-> Tag(vt.type)])
            ELSE [vs EXCEPT !.uf = u]
        expected(vs, ptrExpr, pointsTo, rightItem, vt, et) ==
            judged(vs, ptrExpr, rightItem, vt, et.uf, IF IsType(et.type) THEN et.type ELSE pointsTo)
        typed(vs, ptrExpr, pointsTo, rightItem, vt) ==
            IF ~IsType(vt.type) THEN [vs EXCEPT !.uf = vt.uf]
            ELSE IF Has(pointsTo, "expression")
            THEN expected(vs, ptrExpr, pointsTo, rightItem, vt,
                          GetType(vt.uf, GetTypeId(pointsTo, "")))
            ELSE judged(vs, ptrExpr, rightItem, vt, vt.uf, pointsTo)
        value(vs, ptrExpr, pointsTo, rightItem) ==
            typed(vs, ptrExpr, pointsTo, rightItem, GetType(vs.uf, ExprId(rightItem.expression)))
        RECURSIVE values(_, _, _, _, _)
        values(vs, c, ptrExpr, ptrType, k) ==
            IF k > Len(c.right) THEN vs
            ELSE IF ~Has(c.right[k], "expression") THEN values(vs, c, ptrExpr, ptrType, k + 1)
            ELSE IF ~Has(ptrType, "pointsTo")
            THEN values([vs EXCEPT !.uf = GetType(vs.uf, ExprId(c.right[k].expression)).uf],
                        c, ptrExpr, ptrType, k + 1)
            ELSE values(value(vs, ptrExpr, ptrType.pointsTo, c.right[k]),
                        c, ptrExpr, ptrType, k + 1)
        pointer(vs, c, leftItem, p) ==
            IF IsType(p.type) /\ Tag(p.type) = "pointer"
            THEN values([vs EXCEPT !.uf = p.uf], c, leftItem.expression, p.type, 1)
            ELSE [vs EXCEPT !.uf = p.uf]
        left(vs, c, leftItem) ==
            IF ~Has(leftItem, "expression") THEN vs
            ELSE pointer(vs, c, leftItem, GetType(vs.uf, ExprId(leftItem.expression)))
        RECURSIVE lefts(_, _, _)
        lefts(vs, c, k) ==
            IF k > Len(c.left) THEN vs ELSE lefts(left(vs, c, c.left[k]), c, k + 1)
        RECURSIVE go(_, _)
        go(vs, i) ==
            IF Evaluated(vs) /\ i > Len(cons) THEN vs
            ELSE IF OriginType(cons[i]) = "PointerAssignmentStatement"
            THEN go(lefts(vs, cons[i], 1), i + 1)
            ELSE go(vs, i + 1)
    IN  go(vs0, 1)

validateAllocExpressions(vs0, cons) ==
    LET argument(vs, argExpr, at) ==
            IF IsType(at.type) /\ Tag(at.type) # "int"
            THEN AddError(vs, at.uf, [kind |-> "AllocArgumentNotInt",
                                      name |-> NameOr(argExpr, "expression"),
                                      actual |-> Tag(at.type)])
            ELSE [vs EXCEPT !.uf = at.uf]
        left(vs, leftItem) ==
            IF ~(Has(leftItem, "expression") /\ leftItem.expression.type = "AllocExpression")
            THEN vs
            ELSE argument(vs, leftItem.expression.expression,
                          GetType(vs.uf, ExprId(leftItem.expression.expression)))
        RECURSIVE lefts(_, _, _)
        lefts(vs, c, k) == IF k > Len(c.left) THEN vs ELSE lefts(left(vs, c.left[k]), c, k + 1)
        RECURSIVE go(_, _)
        go(vs, i) == IF Evaluated(vs) /\ i > Len(cons) THEN vs ELSE go(lefts(vs, cons[i], 1), i + 1)
    IN  go(vs0, 1)

\* [uf, type]
getOperandType(u, operand) ==
    LET callee(ct) ==
            IF IsType(ct.type) /\ Tag(ct.type) = "function" /\ Has(ct.type, "returnType")
            THEN IF Has(ct.type.returnType, "expression")
                 THEN GetType(ct.uf, GetTypeId(ct.type.returnType, ""))
                 ELSE [uf |-> ct.uf, type |-> ct.type.returnType]
            ELSE [uf |-> ct.uf, type |-> NoType]
    IN  IF operand.type = "FunctionCall"
        THEN callee(GetType(u, ExprId(operand.callee)))
        ELSE GetType(u, ExprId(operand))

getOperandName(operand) ==
    IF operand.type = "FunctionCall"
    THEN "call " \o NameOr(operand.callee, "unknown") \o "()"
    ELSE NameOr(operand, "operand")

\* validateBinaryExpressions that checks the right operand only
validateBinaryExpressionsRightOnly(vs0, cons) ==
    LET typed(vs, e, t) ==
            IF IsType(t.type) /\ Tag(t.type) # "int"
            THEN AddError(vs, t.uf, [kind |-> "BinaryOperandNotInt",
                                     name |-> getOperandName(e),
                                     actual |-> Tag(t.type)])
            ELSE [vs EXCEPT !.uf = t.uf]
        operand(vs, e) == typed(vs, e, getOperandType(vs.uf, e))
        RECURSIVE go(_, _)
        go(vs, i) ==
            IF Evaluated(vs) /\ i > Len(cons) THEN vs
            ELSE IF OriginType(cons[i]) = "BinaryExpression"
            THEN go(operand(vs, cons[i].originAST.right), i + 1)
            ELSE go(vs, i + 1)
    IN  go(vs0, 1)

validateBinaryExpressions(vs0, cons) ==
    LET typed(vs, e, t) ==
            IF IsType(t.type) /\ Tag(t.type) # "int"
            THEN AddError(vs, t.uf, [kind |-> "BinaryOperandNotInt",
                                     name |-> getOperandName(e),
                                     actual |-> Tag(t.type)])
            ELSE [vs EXCEPT !.uf = t.uf]
        operand(vs, e) == typed(vs, e, getOperandType(vs.uf, e))
        RECURSIVE go(_, _)
        go(vs, i) ==
            IF Evaluated(vs) /\ i > Len(cons) THEN vs
            ELSE IF OriginType(cons[i]) = "BinaryExpression"
            THEN go(operand(operand(vs, cons[i].originAST.left), cons[i].originAST.right), i + 1)
            ELSE go(vs, i + 1)
    IN  go(vs0, 1)

\* the id of an argument list handed to getTypeId as one expression
ArgumentListId(args) == "expr_[" \o ExprListJSON(args) \o "]"

AddArgumentError(funcName, argExpr, i, actual) ==
    [kind |-> "ArgumentNotInt", name |-> funcName, index |-> i,
     arg |-> NameOr(argExpr, "argument " \o ToString(i)), actual |-> actual]

validateFunctionCalls(vs0, cons) ==
    LET \* the arguments as the call node holds them: one nested list
        argument(vs, funcName, i, at) ==
            IF IsType(at.type) /\ funcName = "add" /\ Tag(at.type) # "int"
            THEN AddError(vs, at.uf, [kind |-> "ArgumentNotInt", name |-> funcName,
                                      index |-> i, arg |-> "argument " \o ToString(i),
                                      actual |-> Tag(at.type)])
            ELSE [vs EXCEPT !.uf = at.uf]
        RECURSIVE arguments(_, _, _, _)
        arguments(vs, funcName, args, i) ==
            IF i > Len(args) THEN vs
            ELSE arguments(argument(vs, funcName, i, GetType(vs.uf, ArgumentListId(args[i]))),
                           funcName, args, i + 1)
        callee(vs, calleeExpr, ct) ==
            IF IsType(ct.type) /\ Tag(ct.type) \notin {"function", "recursive"}
            THEN AddError(vs, ct.uf, [kind |-> "CallOfNonFunction",
                                      name |-> NameOr(calleeExpr, "expression"),
                                      actual |-> Tag(ct.type)])
            ELSE [vs EXCEPT !.uf = ct.uf]
        left(vs, leftItem) ==
            IF ~(Has(leftItem, "expression") /\ leftItem.expression.type = "FunctionCall")
            THEN vs
            ELSE arguments(callee(vs, leftItem.expression.callee,
                                  GetType(vs.uf, ExprId(leftItem.expression.callee))),
                           NameOr(leftItem.expression.callee, "unknown"),
                           leftItem.expression.arguments, 1)
        RECURSIVE lefts(_, _, _)
        lefts(vs, c, k) == IF k > Len(c.left) THEN vs ELSE lefts(left(vs, c.left[k]), c, k + 1)
        RECURSIVE first(_, _)
        first(vs, i) == IF Evaluated(vs) /\ i > Len(cons) THEN vs ELSE first(lefts(vs, cons[i], 1), i + 1)
        \* the second loop: the two arguments of add
        added(vs, argExpr, i, at) ==
            IF IsType(at.type) /\ Tag(at.type) # "int"
            THEN AddError(vs, at.uf, AddArgumentError("add", argExpr, i, Tag(at.type)))
            ELSE [vs EXCEPT !.uf = at.uf]
        addArg(vs, argExpr, i) == added(vs, argExpr, i, GetType(vs.uf, ExprId(argExpr)))
        call(vs, funcCallExpr) ==
            LET args == IF funcCallExpr.arguments = <<>> THEN <<>> ELSE funcCallExpr.arguments[1]
            IN  IF NameOr(funcCallExpr.callee, "") = "add" /\ Len(args) >= 2
                THEN addArg(addArg(vs, args[1], 1), args[2], 2)
                ELSE vs
        RECURSIVE second(_, _)
        second(vs, i) ==
            IF Evaluated(vs) /\ i > Len(cons) THEN vs
            ELSE IF OriginType(cons[i]) = "FunctionCall"
            THEN second(call(vs, cons[i].originAST), i + 1)
            ELSE second(vs, i + 1)
    IN  second(first(vs0, 1), 1)

validatePropertyAccess(vs0, cons) ==
    LET object(vs, propAccess, ot) ==
            IF IsType(ot.type) /\ Tag(ot.type) # "record"
            THEN AddError(vs, ot.uf, [kind |-> "PropertyAccessOnNonRecord",
                                      name |-> propAccess.property,
                                      actual |-> Tag(ot.type)])
            ELSE [vs EXCEPT !.uf = ot.uf]
        step(vs, propAccess) == object(vs, propAccess, GetType(vs.uf, ExprId(propAccess.object)))
        RECURSIVE go(_, _)
        go(vs, i) ==
            IF Evaluated(vs) /\ i > Len(cons) THEN vs
            ELSE IF OriginType(cons[i]) = "PropertyAccess"
            THEN go(step(vs, cons[i].originAST), i + 1)
            ELSE go(vs, i + 1)
    IN  go(vs0, 1)

\* [uf, type]
getValueType(u, expr) ==
    LET stored(vt) ==
            IF expr.type = "Variable" /\ expr.name = "ptr" /\ ~IsType(vt.type)
            THEN [uf |-> vt.uf, type |-> PtrT(IntT)] ELSE vt
    IN  CASE expr.type = "AddressExpression" -> [uf |-> u, type |-> PtrT(IntT)]
          [] expr.type = "BinaryExpression" -> [uf |-> u, type |-> IntT]
          [] OTHER -> stored(GetType(u, ExprId(expr)))

\* the distinct elements of a sequence in the order of their first occurrence
Distinct(seq) ==
    LET RECURSIVE go(_, _)
        go(k, acc) ==
            IF k > Len(seq) THEN acc
            ELSE IF \E j \in 1..Len(acc) : acc[j] = seq[k] THEN go(k + 1, acc)
            ELSE go(k + 1, Append(acc, seq[k]))
    IN  go(1, <<>>)

validateVariableTypeConsistency(vs0, cons) ==
    LET firstWith(items, P(_)) ==
            LET hits == {k \in 1..Len(items) : P(items[k])}
            IN  IF hits = {} THEN 0 ELSE CHOOSE k \in hits : \A j \in hits : k <= j
        isVar(item) == Has(item, "expression") /\ item.expression.type = "Variable"
        isExpr(item) == Has(item, "expression")
        \* variableAssignments as a sequence of [name, type] in the order of the pushes
        RECURSIVE gather(_, _, _)
        valued(i, acc, name, vt) ==
            IF ~IsType(vt.type) THEN gather(vt.uf, i + 1, acc)
            ELSE gather(vt.uf, i + 1, Append(acc, [name |-> name, type |-> vt.type]))
        sides(u, i, acc, l, r) ==
            IF l = 0 \/ r = 0 THEN gather(u, i + 1, acc)
            ELSE valued(i, acc, cons[i].left[l].expression.name,
                        getValueType(u, cons[i].right[r].expression))
        gather(u, i, acc) ==
            IF Evaluated(<<u, acc>>) /\ i > Len(cons) THEN [uf |-> u, assignments |-> acc]
            ELSE IF OriginType(cons[i]) # "AssignmentStatement" THEN gather(u, i + 1, acc)
            ELSE sides(u, i, acc, firstWith(cons[i].left, isVar), firstWith(cons[i].right, isExpr))
        tags(sel) == Distinct([k \in 1..Len(sel) |-> Tag(sel[k].type)])
        tagsOf(assignments, n) == tags(SelectSeq(assignments, LAMBDA a : a.name = n))
        differing(errs, name, types) ==
            IF Len(types) > 1
            THEN Append(errs, [kind |-> "InconsistentVariableType", name |-> name, types |-> types])
            ELSE errs
        RECURSIVE report(_, _, _, _)
        report(k, errs, assignments, names) ==
            IF k > Len(names) THEN errs
            ELSE report(k + 1, differing(errs, names[k], tagsOf(assignments, names[k])),
                        assignments, names)
        gathered(g) ==
            [uf |-> g.uf,
             errors |-> report(1, vs0.errors, g.assignments,
                               Distinct([k \in 1..Len(g.assignments) |-> g.assignments[k].name]))]
    IN  gathered(gather(vs0.uf, 1, <<>>))

\* the k-th of the seven checks of validateAllTypes, in the order they are run
NumChecks == 7

\* validateAllTypes that runs a check only while no error has been recorded
validateAllTypesUntilFirstError(vs, cons, k) ==
    IF Len(vs.errors) > 0 THEN vs
    ELSE CASE k = 1 -> validateDereferenceExpressions(vs, cons)
           [] k = 2 -> validatePointerAssignments(vs, cons)
           [] k = 3 -> validateAllocExpressions(vs, cons)
           [] k = 4 -> validateBinaryExpressions(vs, cons)
           [] k = 5 -> validateFunctionCalls(vs, cons)
           [] k = 6 -> validatePropertyAccess(vs, cons)
           [] k = 7 -> validateVariableTypeConsistency(vs, cons)

validateAllTypes(vs, cons, k) ==
    CASE k = 1 -> validateDereferenceExpressions(vs, cons)
      [] k = 2 -> validatePointerAssignments(vs, cons)
      [] k = 3 -> validateAllocExpressions(vs, cons)
      [] k = 4 -> validateBinaryExpressions(vs, cons)
      [] k = 5 -> validateFunctionCalls(vs, cons)
      [] k = 6 -> validatePropertyAccess(vs, cons)
      [] k = 7 -> validateVariableTypeConsistency(vs, cons)

(***************************************************************************)
(* The programs that are type-checked                                      *)
(***************************************************************************)
\* main() { var x,y,z; x = 1; y = alloc x; *y = 2; z = *y; output z; return z; }
ProgPointer ==
    <<Func("main", <<"x", "y", "z">>,
           <<Assign("x", Num(1)), Assign("y", Alloc(Var("x"))), PtrAssign(Var("y"), Num(2)),
             Assign("z", Deref(Var("y"))), Output(Var("z"))>>,
           Var("z"))>>

\* main() { var x,y; x = 1; y = *x; return y; }
ProgDerefInt ==
    <<Func("main", <<"x", "y">>,
           <<Assign("x", Num(1)), Assign("y", Deref(Var("x")))>>, Var("y"))>>

\* main() { var x,y; x = alloc 1; y = x + 1; return y; }
ProgPointerArith ==
    <<Func("main", <<"x", "y">>,
           <<Assign("x", Alloc(Num(1))), Assign("y", Bin("+", Var("x"), Num(1)))>>,
           Var("y"))>>

\* main() { var x; x = 1; x = &x; return x; }
ProgReassign ==
    <<Func("main", <<"x">>, <<Assign("x", Num(1)), Assign("x", Addr("x"))>>, Var("x"))>>

\* getX() { var p; p = {x: 1, y: 2}; return p.x; }
ProgRecord ==
    <<Func("getX", <<"p">>,
           <<Assign("p", ObjLit(<<Prop("x", Num(1)), Prop("y", Num(2))>>))>>,
           Access(Var("p"), "x"))>>

\* the fields read from the record {x: 1}
AccessedFields == {"x", "z"}

\* main() { var p,q,r; p = {x: 1}; q = p; r = v.f; return 0; }, v being p or q
ProgRecordAccess(aliased, f) ==
    <<Func("main", <<"p", "q", "r">>,
           <<Assign("p", ObjLit(<<Prop("x", Num(1))>>)), Assign("q", Var("p")),
             Assign("r", Access(Var(IF aliased THEN "q" ELSE "p"), f))>>,
           Num(0))>>

\* main() { var x,y[,z]; [z = 1;] x = null; y = null; return 0; }
ProgNulls(withOther) ==
    <<Func("main", IF withOther THEN <<"x", "y", "z">> ELSE <<"x", "y">>,
           (IF withOther THEN <<Assign("z", Num(1))>> ELSE <<>>)
               \o <<Assign("x", NullLit), Assign("y", NullLit)>>,
           Num(0))>>

\* main() { var r,y; r = {x: 1}; y = alloc 2; y = r.x; return 0; }
ProgFieldIntoPointer ==
    <<Func("main", <<"r", "y">>,
           <<Assign("r", ObjLit(<<Prop("x", Num(1))>>)), Assign("y", Alloc(Num(2))),
             Assign("y", Access(Var("r"), "x"))>>,
           Num(0))>>

\* the values stored through q
StoredValues == {Num(5), Var("x"), Var("p")}

\* main() { var x,p,q; x = 1; p = alloc x; q = &p; *q = v; return 0; }
ProgPointerStore(v) ==
    <<Func("main", <<"x", "p", "q">>,
           <<Assign("x", Num(1)), Assign("p", Alloc(Var("x"))), Assign("q", Addr("p")),
             PtrAssign(Var("q"), v)>>,
           Num(0))>>

\* f() { var x; x = 1; return 0; } g() { var x; x = alloc 1; return 0; }
ProgSameNameLocals ==
    <<Func("f", <<"x">>, <<Assign("x", Num(1))>>, Num(0)),
      Func("g", <<"x">>, <<Assign("x", Alloc(Num(1)))>>, Num(0))>>

\* main() { var x; x = alloc 1; x = alloc 2; return 0; }
ProgTwoAllocs ==
    <<Func("main", <<"x">>, <<Assign("x", Alloc(Num(1))), Assign("x", Alloc(Num(2)))>>, Num(0))>>

SelfCall == Call(Var("f"), <<>>)

\* where the only assignment to the local x is
AssignmentPlaces == {"none", "then", "else", "while", "while-else"}

\* main() { var x,c; c = 1; S return 0; } with S, by place: nothing;
\* if (c) { x = 1; }; if (c) { c = 2; } else { x = 1; }; while (c) { x = 1; };
\* while (c) { if (c) { c = 2; } else { x = 1; } }
ProgBranchAssign(place) ==
    <<Func("main", <<"x", "c">>,
           <<Assign("c", Num(1))>> \o
               (CASE place = "none" -> <<>>
                  [] place = "then" -> <<If(Var("c"), <<Assign("x", Num(1))>>)>>
                  [] place = "else" ->
                        <<IfElse(Var("c"), <<Assign("c", Num(2))>>, <<Assign("x", Num(1))>>)>>
                  [] place = "while" -> <<While(Var("c"), <<Assign("x", Num(1))>>)>>
                  [] place = "while-else" ->
                        <<While(Var("c"),
                                <<IfElse(Var("c"), <<Assign("c", Num(2))>>,
                                         <<Assign("x", Num(1))>>)>>)>>),
           Num(0))>>

\* f() { var r,y; r = alloc 1; y = f() + 1; return r; }
ProgRecursiveCallOperand ==
    <<Func("f", <<"r", "y">>,
           <<Assign("r", Alloc(Num(1))), Assign("y", Bin("+", SelfCall, Num(1)))>>,
           Var("r"))>>

\* g() { var p; p = alloc 1; return p; } main() { var y; y = g() + 1; return y; }
ProgCallOperand ==
    <<Func("g", <<"p">>, <<Assign("p", Alloc(Num(1)))>>, Var("p")),
      Func("main", <<"y">>, <<Assign("y", Bin("+", Call(Var("g"), <<>>), Num(1)))>>, Var("y"))>>

\* g() { return 1; } main() { var y; y = g(g()); return y; }
ProgCallArgument ==
    <<Func("g", <<>>, <<>>, Num(1)),
      Func("main", <<"y">>, <<Assign("y", Call(Var("g"), <<Call(Var("g"), <<>>)>>))>>, Var("y"))>>

\* f() { var x,r; x = 1; [r = f();] return *x; }
ProgReturnDeref(recursive) ==
    <<Func("f", <<"x", "r">>,
           <<Assign("x", Num(1))>> \o
               (IF recursive THEN <<Assign("r", SelfCall)>> ELSE <<Assign("r", Num(2))>>),
           Deref(Var("x")))>>

\* what the variable result is initialised with before the self-call
RecInits == {"none", "int", "alloc", "null"}

\* the variable that receives the result of the self-call
RecReceivers == {"result", "r"}

\* the return expression
RecReturns ==
    {Num(0), Var("r"), Var("result"), Alloc(Num(1)), SelfCall, Bin("+", SelfCall, Num(1))}

\* f() { var result, r; [result = init;] recv = f(); return ret; }
ProgRecursive(init, recv, ret) ==
    <<Func("f", <<"result", "r">>,
           (CASE init = "none" -> <<>>
              [] init = "int" -> <<Assign("result", Num(1))>>
              [] init = "alloc" -> <<Assign("result", Alloc(Num(1)))>>
              [] init = "null" -> <<Assign("result", NullLit)>>)
               \o <<Assign(recv, SelfCall)>>,
           ret)>>

\* f() { return f(); } and f() { var r; if (r) { r = f(); } return r; }
ProgRecursiveReturnOnly == <<Func("f", <<>>, <<>>, SelfCall)>>

ProgRecursiveNested ==
    <<Func("f", <<"r">>, <<If(Var("r"), <<Assign("r", SelfCall)>>)>>, Var("r"))>>

RecursivePrograms ==
    {ProgRecursive(i, v, r) : i \in RecInits, v \in RecReceivers, r \in RecReturns}
        \cup {ProgRecursiveReturnOnly, ProgRecursiveNested}

Programs ==
    {ProgPointer, ProgDerefInt, ProgPointerArith, ProgReassign, ProgRecord,
     ProgNulls(FALSE), ProgNulls(TRUE), ProgFieldIntoPointer,
     ProgSameNameLocals, ProgTwoAllocs, ProgReturnDeref(FALSE), ProgReturnDeref(TRUE),
     ProgRecursiveCallOperand, ProgCallOperand, ProgCallArgument}
        \cup {ProgBranchAssign(place) : place \in AssignmentPlaces}
        \cup {ProgRecordAccess(aliased, f) : aliased \in BOOLEAN, f \in AccessedFields}
        \cup {ProgPointerStore(v) : v \in StoredValues} \cup RecursivePrograms

(***************************************************************************)
(* TipTypeChecker.processTypeCheck: one run of the checker on a program.   *)
(* pc is the position of the run; idx is the number of the constraint the  *)
(* loop of unifyConstraints is at.                                         *)
(***************************************************************************)
NoOp == [op |-> "none", a |-> "", b |-> "", ok |-> TRUE]

Init ==
    /\ prog \in Programs
    /\ constraints = <<>>
    /\ uf = EmptyUF
    /\ errors = <<>>
    /\ pc = "parsed"
    /\ idx = 0
    /\ last = NoOp
    /\ pool = 0

Collect ==
    /\ pc = "parsed"
    /\ constraints' = collectTypeConstraints(prog)
    /\ pc' = "collected"
    /\ UNCHANGED <<prog, uf, errors, idx, last, pool>>

Register ==
    /\ pc = "collected"
    /\ uf' = registerTypesInUnionFind(constraints, EmptyUF)
    /\ errors' = <<>>
    /\ idx' = 1
    /\ pc' = IF Len(constraints) = 0 THEN "linkCalls" ELSE "unify"
    /\ UNCHANGED <<prog, constraints, last, pool>>

Unify ==
    /\ pc = "unify"
    /\ idx <= Len(constraints)
    /\ LET become(ss) == uf' = ss.uf /\ errors' = ss.errors
       IN  become(unifyConstraint([uf |-> uf, errors |-> errors], constraints, idx))
    /\ idx' = idx + 1
    /\ pc' = IF idx = Len(constraints) THEN "linkCalls" ELSE "unify"
    /\ UNCHANGED <<prog, constraints, last, pool>>

LinkCalls ==
    /\ pc = "linkCalls"
    /\ LET become(ss) == uf' = ss.uf /\ errors' = ss.errors
       IN  become(linkFunctionCallsToReturnTypes([uf |-> uf, errors |-> errors], constraints))
    /\ pc' = "linkParams"
    /\ UNCHANGED <<prog, constraints, idx, last, pool>>

LinkParams ==
    /\ pc = "linkParams"
    /\ LET become(ss) == uf' = ss.uf /\ errors' = ss.errors
       IN  become(linkFunctionParametersToArguments([uf |-> uf, errors |-> errors], constraints))
    /\ pc' = "linkProps"
    /\ UNCHANGED <<prog, constraints, idx, last, pool>>

LinkProps ==
    /\ pc = "linkProps"
    /\ LET become(ss) == uf' = ss.uf /\ errors' = ss.errors
       IN  become(linkPropertyAccessToFieldTypes([uf |-> uf, errors |-> errors], constraints))
    /\ pc' = "resolve"
    /\ UNCHANGED <<prog, constraints, idx, last, pool>>

Resolve ==
    /\ pc = "resolve"
    /\ LET become(ss) == uf' = ss.uf /\ errors' = ss.errors
       IN  become(resolveRemainingTypeVariables([uf |-> uf, errors |-> errors], constraints))
    /\ pc' = "validate"
    /\ idx' = 1
    /\ UNCHANGED <<prog, constraints, last, pool>>

\* the checks of validateAllTypes one after the other; their errors are appended
\* to the errors of the solver in the order they are found
Validate ==
    /\ pc = "validate"
    /\ idx <= NumChecks
    /\ LET become(vs) == uf' = vs.uf /\ errors' = vs.errors
       IN  become(validateAllTypes([uf |-> uf, errors |-> errors], constraints, idx))
    /\ idx' = idx + 1
    /\ pc' = IF idx = NumChecks THEN "done" ELSE "validate"
    /\ UNCHANGED <<prog, constraints, last, pool>>

Next == Collect \/ Register \/ Unify \/ LinkCalls \/ LinkParams \/ LinkProps \/ Resolve \/ Validate

Spec == Init /\ [][Next]_vars

\* processTypeCheck is straight-line code over bounded loops: a run that has
\* started goes on until the results are printed.  This is weak fairness of
\* Next, with "a step is possible" written as pc # "done": either the run is
\* at "done" again and again or it takes steps again and again.
FairSpec == Spec /\ ([]<>(pc = "done") \/ []<><<Next>>_vars)

\* printTypeErrors: what the run reports for the final error list
printTypeErrors(errs) == IF Len(errs) = 0 THEN "no type errors" ELSE "type errors"

(***************************************************************************)
(* Store-level specification: the public operations of UnionFind applied   *)
(* in any order to a small pool of ids and payloads.                       *)
(***************************************************************************)
\* number of re-registrations (makeSet on a live id) a behaviour may contain
MaxReRegister == 1

VarX == [type |-> "Variable", name |-> "x"]

FnInt == FnT(<<>>, IntT)

RecX == RecordT(<<Field("x", IntT)>>)

RecXY == RecordT(<<Field("x", IntT), Field("y", IntT)>>)

RecXYp == RecordT(<<Field("x", IntT), Field("y", PtrT(IntT))>>)

\* every shape of payload: absent, Int, pointers to each kind of target,
\* type variable, function, recursive, records
TypePool ==
    { NoType, IntT, PtrNone, PtrT(IntT), PtrT(PtrT(IntT)), PtrT(TypeVarT("α")),
      PtrT(FnNoRet(<<>>)), PtrT(RecX), PtrT(Deferred(VarX)),
      TypeVarT("β"), FnInt, RecursiveT("γ", FnInt), RecX, RecXY, RecXYp }

\* the pools a behaviour draws its ids and payloads from: the payloads an id
\* may be registered with
Pools ==
    << [a |-> TypePool, b |-> TypePool],
       [a |-> {IntT}, b |-> {PtrT(IntT), IntT}, c |-> {TypeVarT("β")}],
       [a |-> {RecX}, b |-> {RecXY}, c |-> {RecXYp}],
       [a |-> {FnInt}, b |-> {RecursiveT("γ", FnInt)}, c |-> {TypeVarT("β"), IntT}] >>

PoolIds == DOMAIN Pools[pool]

InitUF ==
    /\ prog = <<>>
    /\ constraints = <<>>
    /\ uf = EmptyUF
    /\ errors = <<>>
    /\ pc = "store"
    /\ idx = 0
    /\ last = NoOp
    /\ pool \in 1..Len(Pools)

UFMakeSet ==
    \E id \in PoolIds : \E t \in Pools[pool][id] :
        /\ pc = "store"
        /\ id \in Registered(uf) => idx < MaxReRegister
        /\ uf' = MakeSet(uf, id, t)
        /\ idx' = IF id \in Registered(uf) THEN idx + 1 ELSE idx
        /\ last' = [op |-> "makeSet", a |-> id, b |-> "", ok |-> TRUE]
        /\ UNCHANGED <<prog, constraints, errors, pc, pool>>

UFFind ==
    \E id \in PoolIds :
        /\ pc = "store"
        /\ uf' = Find(uf, id).uf
        /\ last' = [op |-> "find", a |-> id, b |-> "", ok |-> TRUE]
        /\ UNCHANGED <<prog, constraints, errors, pc, idx, pool>>

UFUnion ==
    \E id1 \in PoolIds, id2 \in PoolIds :
        /\ pc = "store"
        /\ LET become(r) ==
                   /\ uf' = r.uf
                   /\ last' = [op |-> "union", a |-> id1, b |-> id2, ok |-> r.ok]
           IN  become(Union(uf, id1, id2))
        /\ UNCHANGED <<prog, constraints, errors, pc, idx, pool>>

NextUF == UFMakeSet \/ UFFind \/ UFUnion

SpecUF == InitUF /\ [][NextUF]_vars

(***************************************************************************)
(* Solver-level specification: registration and the unification loop       *)
(* applied to constraints with any number of operands on either side.      *)
(***************************************************************************)
\* largest number of operands on one side of a constraint
MaxOperands == 3

\* the operands a side is made of
OperandItems == {Deferred(Var("a")), IntT, PtrT(IntT)}

OperandLists == UNION {[1..n -> OperandItems] : n \in 0..MaxOperands}

\* a = 1, the constraint that may precede the one under study
FirstConstraint == Constraint(Assign("a", Num(1)), <<Deferred(Var("a"))>>, <<IntT>>)

InitCons ==
    /\ prog = <<>>
    /\ \E l \in OperandLists, r \in OperandLists, withFirst \in BOOLEAN :
          constraints = (IF withFirst THEN <<FirstConstraint>> ELSE <<>>)
                            \o <<Constraint(Output(Var("a")), l, r)>>
    /\ uf = EmptyUF
    /\ errors = <<>>
    /\ pc = "collected"
    /\ idx = 0
    /\ last = NoOp
    /\ pool = 0

NextCons == Register \/ Unify

SpecCons == InitCons /\ [][NextCons]_vars

(***************************************************************************)
(* Properties of a run of the checker (specification Spec)                 *)
(***************************************************************************)
XId == ExprId(Var("x"))

YId == ExprId(Var("y"))

ZId == ExprId(Var("z"))

\* the payload a pointer's target resolves to: a deferred target is looked up
TargetOf(u, ptr) ==
    IF ~Has(ptr, "pointsTo") THEN NoType
    ELSE IF Has(ptr.pointsTo, "expression") THEN TypeOf(u, GetTypeId(ptr.pointsTo, ""))
    ELSE ptr.pointsTo

\* C1: the run on main() { var x,y,z; x = 1; y = alloc x; *y = 2; z = *y;
\* output z; return z; } ends with no error, x and z of type int and y a
\* pointer whose target resolves to int.
C1_PointerProgramChecks ==
    (prog = ProgPointer /\ pc = "done") =>
        /\ errors = <<>>
        /\ TypeOf(uf, XId) = IntT
        /\ TypeOf(uf, ZId) = IntT
        /\ Tag(TypeOf(uf, YId)) = "pointer"
        /\ TargetOf(uf, TypeOf(uf, YId)) = IntT

C1_Witness ==
    /\ prog = ProgPointer
    /\ pc = "done"
    /\ errors = <<>>
    /\ TypeOf(uf, YId) = PtrT(Deferred(Var("x")))
    /\ RootOf(uf, ExprId(Deref(Var("y")))) = RootOf(uf, XId)

\* C2: the run on main() { var x,y; x = 1; y = *x; return y; } ends with
\* exactly one error, the dereference of a non-pointer, and it names x.
C2_DerefOfIntReported ==
    (prog = ProgDerefInt /\ pc = "done") =>
        /\ Len(errors) = 1
        /\ errors[1].kind = "DereferenceOfNonPointer"
        /\ errors[1].name = "x"

C2_Witness ==
    /\ prog = ProgDerefInt
    /\ pc = "done"
    /\ errors = <<[kind |-> "DereferenceOfNonPointer", name |-> "x", actual |-> "int"]>>

\* C3: the run on main() { var x,y; x = alloc 1; y = x + 1; return y; }
\* ends with exactly one error, a non-integer operand of a binary
\* operation, and it names x.
C3_PointerOperandReported ==
    (prog = ProgPointerArith /\ pc = "done") =>
        /\ Len(errors) = 1
        /\ errors[1].kind = "BinaryOperandNotInt"
        /\ errors[1].name = "x"

C3_Witness ==
    /\ prog = ProgPointerArith
    /\ pc = "done"
    /\ errors = <<[kind |-> "BinaryOperandNotInt", name |-> "x", actual |-> "pointer"]>>

\* an error about x: a unification conflict one side of which is x, or
\* inconsistent types assigned to x
ConcernsX(e) ==
    \/ e.kind = "UnificationConflict" /\ XId \in {e.left, e.right}
    \/ e.kind = "InconsistentVariableType" /\ e.name = "x"

\* C4: the run on main() { var x; x = 1; x = &x; return x; } ends with at
\* least one error about x: a unification conflict (int against pointer) or
\* an inconsistent-variable-type error.
C4_ReassignmentReported ==
    (prog = ProgReassign /\ pc = "done") =>
        \E k \in 1..Len(errors) : ConcernsX(errors[k])

C4_Witness ==
    /\ prog = ProgReassign
    /\ pc = "done"
    /\ \E k \in 1..Len(errors) :
          /\ errors[k].kind = "UnificationConflict"
          /\ errors[k].left = XId
          /\ errors[k].right = ExprId(Addr("x"))
    /\ \E k \in 1..Len(errors) :
          /\ errors[k].kind = "InconsistentVariableType"
          /\ errors[k].types = <<"int", "pointer">>

PXId == ExprId(Access(Var("p"), "x"))

\* C5: the run on getX() { var p; p = {x: 1, y: 2}; return p.x; } ends with
\* no error and with getType of p.x being int.
C5_RecordFieldIsInt ==
    (prog = ProgRecord /\ pc = "done") =>
        /\ errors = <<>>
        /\ TypeOf(uf, PXId) = IntT

C5_Witness ==
    /\ prog = ProgRecord
    /\ pc = "done"
    /\ errors = <<>>
    /\ TypeOf(uf, PXId) = IntT
    /\ Tag(TypeOf(uf, ExprId(Var("p")))) = "record"

\* the null operand on the right of the constraint of the assignment v = null
NullOperandOf(v) ==
    LET k == CHOOSE k \in 1..Len(constraints) :
                /\ OriginType(constraints[k]) = "AssignmentStatement"
                /\ constraints[k].originAST.variable = v
    IN  constraints[k].right[1]

Solved == pc \in {"linkCalls", "linkParams", "linkProps", "resolve", "validate", "done"}

\* C6: for x = null; y = null; the two occurrences of null carry distinct
\* numbers of the counter and distinct ids, and once the constraints are
\* unified (nothing else linking them) the two occurrences are in different
\* classes and so are x and y.
C6_NullsStayApart ==
    (prog \in {ProgNulls(FALSE), ProgNulls(TRUE)} /\ pc # "parsed") =>
        LET nx == NullOperandOf("x")
            ny == NullOperandOf("y")
        IN  /\ nx.expression._nullId # ny.expression._nullId
            /\ GetTypeId(nx, "") # GetTypeId(ny, "")
            /\ Solved =>
                  /\ RootOf(uf, GetTypeId(nx, "")) # RootOf(uf, GetTypeId(ny, ""))
                  /\ RootOf(uf, XId) # RootOf(uf, YId)

C6_Witness ==
    /\ prog = ProgNulls(FALSE)
    /\ pc = "done"
    /\ GetTypeId(NullOperandOf("x"), "") = "expr_null_1"
    /\ GetTypeId(NullOperandOf("y"), "") = "expr_null_2"
    /\ RootOf(uf, XId) = RootOf(uf, "expr_null_1")
    /\ RootOf(uf, YId) = RootOf(uf, "expr_null_2")
    /\ RootOf(uf, XId) # RootOf(uf, YId)

\* the constraints that bind the name of the function f
DeclarationsOfF ==
    {k \in 1..Len(constraints) :
        /\ OriginType(constraints[k]) = "FunctionDeclaration"
        /\ constraints[k].left[1].expression = Var("f")}

\* an error the solver records for the self-call f(): the call against the
\* return type, or a conflict one side of which is the call
FromSelfCall(e) ==
    \/ e.kind = "ReturnTypeMismatch" /\ e.name = "f"
    \/ e.kind = "UnificationConflict"
          /\ (e.origin = "FunctionCall" \/ ExprId(SelfCall) \in {e.left, e.right})

\* C7: for every function that calls itself by its bare name, the
\* declaration binds the name to a type tagged recursive and the solver
\* records no unification error for the self-call, whatever the local
\* variables and the return expression are.
C7_SelfCallNoConflict ==
    (prog \in RecursivePrograms /\ pc = "done") =>
        /\ DeclarationsOfF # {}
        /\ \A k \in DeclarationsOfF : Tag(constraints[k].right[1]) = "recursive"
        /\ \A k \in 1..Len(errors) : ~FromSelfCall(errors[k])

(***************************************************************************)
(* Properties of the store (specification SpecUF)                          *)
(***************************************************************************)
\* the targets of the pointers of TypePool, and no target at all
PointerTargets == {t.pointsTo : t \in {p \in TypePool : Has(p, "pointsTo")}}

\* C8: isCompatible(Pointer(T), Int) and isCompatible(Int, Pointer(T)) are
\* false for every target T (none, int, pointer, type variable, function,
\* record, deferred expression), and from every state of the store a union
\* of a class whose payload is a pointer with a class whose payload is int
\* returns false, in either order.
C8_PointerNeverInt ==
    pc = "store" =>
        /\ ~IsCompatible(PtrNone, IntT) /\ ~IsCompatible(IntT, PtrNone)
        /\ \A t \in PointerTargets :
              ~IsCompatible(PtrT(t), IntT) /\ ~IsCompatible(IntT, PtrT(t))
        /\ \A a \in PoolIds, b \in PoolIds :
              (Tag(TypeOf(uf, a)) = "pointer" /\ Tag(TypeOf(uf, b)) = "int") =>
                  ~Union(uf, a, b).ok /\ ~Union(uf, b, a).ok

C8_Witness ==
    /\ pc = "store"
    /\ last.op = "union"
    /\ ~last.ok
    /\ TypeOf(uf, last.a) = PtrT(Deferred(VarX))
    /\ TypeOf(uf, last.b) = IntT

\* C9: Record{x:Int} is compatible with Record{x:Int,y:Int} and with
\* Record{x:Int,y:Pointer(Int)}, in either order, and from every state of
\* the store a union of a class whose payload is Record{x:Int,y:Int} with a
\* class whose payload is Record{x:Int,y:Pointer(Int)} returns false.
C9_RecordSubsets ==
    pc = "store" =>
        /\ IsCompatible(RecX, RecXY) /\ IsCompatible(RecXY, RecX)
        /\ IsCompatible(RecX, RecXYp) /\ IsCompatible(RecXYp, RecX)
        /\ \A a \in PoolIds, b \in PoolIds :
              (TypeOf(uf, a) = RecXY /\ TypeOf(uf, b) = RecXYp) =>
                  ~Union(uf, a, b).ok /\ ~Union(uf, b, a).ok

C9_Witness ==
    /\ pc = "store"
    /\ last.op = "union"
    /\ ~last.ok
    /\ TypeOf(uf, last.a) = RecXY
    /\ TypeOf(uf, last.b) = RecXYp
    /\ \E c \in PoolIds : TypeOf(uf, c) = RecX /\ Union(uf, c, last.a).ok

\* C10: from every state of the store and for all ids a and b, union(a,b)
\* and union(b,a) return the same boolean and leave the same partition of
\* the ids into classes.
C10_UnionCommutes ==
    pc = "store" =>
        \A a \in PoolIds, b \in PoolIds :
            LET ab == Union(uf, a, b)
                ba == Union(uf, b, a)
            IN  /\ ab.ok = ba.ok
                /\ Partition(ab.uf) = Partition(ba.uf)

\* a union has merged two classes, and a further union of two classes still
\* apart builds a different tree in each order
C10_Witness ==
    /\ pc = "store"
    /\ last.op = "union"
    /\ last.ok
    /\ RootOf(uf, last.a) = RootOf(uf, last.b)
    /\ \E a \in PoolIds, b \in PoolIds :
          /\ RootOf(uf, a) # RootOf(uf, b)
          /\ Union(uf, a, b).ok
          /\ Union(uf, a, b).uf # Union(uf, b, a).uf
          /\ Partition(Union(uf, a, b).uf) # Partition(uf)

\* the nodes on the path from id to its root, both included (id alone when
\* it is not registered)
RECURSIVE PathOf(_, _)
PathOf(u, id) ==
    IF id \notin Registered(u) \/ u.parent[id] = id THEN {id}
    ELSE {id} \cup PathOf(u, u.parent[id])

\* C11: from every state of the store and for every id, two consecutive
\* calls of find(id) return the same root; after the first call the parent of
\* id and of every node on its former path is that root, and the second call
\* changes no parent pointer (nor anything else of the store).
C11_FindTwice ==
    pc = "store" =>
        \A id \in PoolIds :
            LET f1 == Find(uf, id)
                f2 == Find(f1.uf, id)
            IN  /\ f2.root = f1.root
                /\ \A n \in PathOf(uf, id) : f1.uf.parent[n] = f1.root
                /\ f2.uf = f1.uf

\* a find has been called, and some id sits two steps below its root, so that
\* a find of it has pointers to compress
C11_Witness ==
    /\ pc = "store"
    /\ last.op = "find"
    /\ \E id \in Registered(uf) :
          /\ Cardinality(PathOf(uf, id)) >= 3
          /\ Find(uf, id).uf.parent # uf.parent

\* a payload that is there and is not a type variable
Concrete(t) == IsType(t) /\ Tag(t) # "typevar"

\* C12: from every state of the store, a union of two ids whose roots differ
\* and carry non-type-variable payloads that isCompatible rejects returns
\* false and changes nothing observable: the registered ids, the class and
\* the root of every id and the payload of every id are as before, and the
\* two ids are still in different classes.
C12_FailedUnionChangesNothing ==
    pc = "store" =>
        \A a \in PoolIds, b \in PoolIds :
            (/\ RootOf(uf, a) # RootOf(uf, b)
             /\ Concrete(TypeOf(uf, a)) /\ Concrete(TypeOf(uf, b))
             /\ ~IsCompatible(TypeOf(uf, a), TypeOf(uf, b))) =>
                LET r == Union(uf, a, b)
                IN  /\ ~r.ok
                    /\ Registered(r.uf) = Registered(uf)
                    /\ Partition(r.uf) = Partition(uf)
                    /\ \A i \in Registered(uf) :
                          /\ RootOf(r.uf, i) = RootOf(uf, i)
                          /\ TypeOf(r.uf, i) = TypeOf(uf, i)
                    /\ RootOf(r.uf, a) # RootOf(r.uf, b)

\* a union of a function class with an int class has just failed, and one of
\* the two classes has more than one member
C12_Witness ==
    /\ pc = "store"
    /\ last.op = "union"
    /\ ~last.ok
    /\ TypeOf(uf, last.a) = FnInt
    /\ TypeOf(uf, last.b) = IntT
    /\ RootOf(uf, last.a) # RootOf(uf, last.b)
    /\ \E c \in Registered(uf) \ {last.a} : RootOf(uf, c) = RootOf(uf, last.a)

\* the solver phases of a run: unification, the linking passes, the resolution
InSolver == pc \in {"unify", "linkCalls", "linkParams", "linkProps", "resolve"}

\* C13: in a solver run, once an id's payload is a non-type-variable type, no
\* later step (a union, a linking pass, the resolution of the remaining type
\* variables) makes getType of that id a type that isCompatible rejects
\* against the earlier payload.
C13_ConcreteStaysCompatible ==
    [][InSolver =>
          \A id \in Registered(uf) :
              Concrete(TypeOf(uf, id)) =>
                  \/ TypeOf(uf', id) = TypeOf(uf, id)
                  \/ /\ Concrete(TypeOf(uf', id))
                     /\ IsCompatible(TypeOf(uf, id), TypeOf(uf', id))]_vars

\* the errors the step at position p finds on the store u, apart from the
\* errors recorded before it
StepErrors(p, u, cons, i) ==
    LET fresh == [uf |-> u, errors |-> <<>>]
    IN  CASE p = "unify" -> unifyConstraint(fresh, cons, i).errors
          [] p = "linkCalls" -> linkFunctionCallsToReturnTypes(fresh, cons).errors
          [] p = "linkParams" -> linkFunctionParametersToArguments(fresh, cons).errors
          [] p = "linkProps" -> linkPropertyAccessToFieldTypes(fresh, cons).errors
          [] p = "resolve" -> resolveRemainingTypeVariables(fresh, cons).errors
          [] p = "validate" -> validateAllTypes(fresh, cons, i).errors
          [] OTHER -> <<>>

\* the position that follows position p at index i in a run over cons
StepAfter(p, cons, i) ==
    CASE p = "parsed" -> "collected"
      [] p = "collected" -> IF Len(cons) = 0 THEN "linkCalls" ELSE "unify"
      [] p = "unify" -> IF i < Len(cons) THEN "unify" ELSE "linkCalls"
      [] p = "linkCalls" -> "linkParams"
      [] p = "linkParams" -> "linkProps"
      [] p = "linkProps" -> "resolve"
      [] p = "resolve" -> "validate"
      [] p = "validate" -> IF i < NumChecks THEN "validate" ELSE "done"

\* C14: a run executes every phase whatever errors were recorded before: each
\* step is followed by the next position of the fixed order (every constraint,
\* the four linking passes, the seven checks), each step appends exactly the
\* errors it finds to the list and removes none, so the final list is the
\* solver's errors followed by the validation errors; every run reaches the
\* report, and the report says "no type errors" exactly when the list is empty.
C14_EveryPhaseRuns ==
    /\ [][/\ pc' = StepAfter(pc, constraints, idx)
          /\ errors' = errors \o StepErrors(pc, uf, constraints, idx)]_vars
    /\ <>(pc = "done")
    /\ [](pc = "done" => (printTypeErrors(errors) = "no type errors" <=> errors = <<>>))

\* a finished run whose list holds an error of the solver followed by an error
\* of the validation
C14_Witness ==
    /\ pc = "done"
    /\ Len(errors) >= 2
    /\ errors[1].kind \in {"UnificationConflict", "ReturnTypeMismatch", "PropertyAccessMismatch"}
    /\ errors[Len(errors)].kind \in
          {"InconsistentVariableType", "PointerAssignmentMismatch", "BinaryOperandNotInt",
           "DereferenceOfNonPointer", "PropertyAccessOnNonRecord"}

\* the pointer stores of the program: the statements the constraints come from
PointerStores(cons) ==
    {cons[i].originAST : i \in {j \in DOMAIN cons :
                                   /\ Has(cons[j].originAST, "type")
                                   /\ cons[j].originAST.type = "PointerAssignmentStatement"}}

\* the number of errors of a kind in a list
CountKind(errs, k) == Cardinality({i \in DOMAIN errs : errs[i].kind = k})

\* C15: at the end of a run over a program with one pointer store *p = v,
\* where p has a pointer type whose target T is a type and v has a type, the
\* list holds one pointer-store-mismatch error when the tags of T and of v's
\* type differ, and none when they agree.
C15_StoreMismatchReported ==
    pc = "done" =>
        \A stmt \in PointerStores(constraints) :
            LET ptrType == TypeOf(uf, ExprId(stmt.pointer))
                T == TargetOf(uf, ptrType)
                vType == TypeOf(uf, ExprId(stmt.value))
            IN  (/\ Cardinality(PointerStores(constraints)) = 1
                 /\ IsType(ptrType) /\ Tag(ptrType) = "pointer"
                 /\ Concrete(T) /\ Concrete(vType)) =>
                    CountKind(errors, "PointerAssignmentMismatch") =
                        IF Tag(T) # Tag(vType) THEN 1 ELSE 0

\* C16: in a solver run the classes only grow: two ids that are in one class,
\* which they are only through unions that returned true, are in one class
\* after every later step, the property-access linking pass and the
\* resolution of the remaining type variables included.
C16_UnitedStayUnited ==
    [][InSolver =>
          \A a \in Registered(uf), b \in Registered(uf) :
              RootOf(uf, a) = RootOf(uf, b) => RootOf(uf', a) = RootOf(uf', b)]_vars

\* C17: the run on f() { var x; x = 1; return 0; } g() { var x; x = alloc 1;
\* return 0; } ends with no error, the x of f of type int and the x of g of a
\* pointer type.
C17_SameNameLocalsIndependent ==
    (pc = "done" /\ prog = ProgSameNameLocals) =>
        /\ errors = <<>>
        /\ TypeOf(uf, GetTypeId(Deferred(Var("x")), "f")) = IntT
        /\ Tag(TypeOf(uf, GetTypeId(Deferred(Var("x")), "g"))) = "pointer"

\* C18: the run on main() { var x; x = alloc 1; x = alloc 2; return 0; } ends
\* with no error and x of type pointer to int: the two pointer types, whose
\* targets are the deferred expressions 1 and 2, are compatible.
C18_TwoAllocsCompatible ==
    (pc = "done" /\ prog = ProgTwoAllocs) =>
        /\ errors = <<>>
        /\ Tag(TypeOf(uf, ExprId(Var("x")))) = "pointer"
        /\ TargetOf(uf, TypeOf(uf, ExprId(Var("x")))) = IntT

\* C19: from every state of the store, a union of two ids of different
\* classes, one with a recursive payload and the other with a function
\* payload, that returns true leaves the merged class with the recursive
\* payload, whichever id is given first and whatever the ranks are.
C19_RecursiveKept ==
    pc = "store" =>
        \A a \in PoolIds, b \in PoolIds :
            LET ta == TypeOf(uf, a)
                tb == TypeOf(uf, b)
                r == Union(uf, a, b)
            IN  (/\ RootOf(uf, a) # RootOf(uf, b)
                 /\ IsType(ta) /\ IsType(tb)
                 /\ \/ Tag(ta) = "recursive" /\ Tag(tb) = "function"
                    \/ Tag(ta) = "function" /\ Tag(tb) = "recursive"
                 /\ r.ok) =>
                    /\ TypeOf(r.uf, a) = (IF Tag(ta) = "recursive" THEN ta ELSE tb)
                    /\ TypeOf(r.uf, b) = TypeOf(r.uf, a)

\* the ids of the pool that can be registered with one payload only, and that
\* payload; such an id holds it as long as it is not registered again
OnePayloadIds == {id \in PoolIds : Cardinality(Pools[pool][id]) = 1}

PayloadOf(id) == CHOOSE t \in Pools[pool][id] : TRUE

\* C20: in every state of the store reached by registrations and unions with
\* no id registered twice, two ids of one class that were registered with
\* non-type-variable payloads have payloads that isCompatible accepts; so the
\* records {x: int, y: int} and {x: int, y: pointer to int} are never in one
\* class.
C20_ClassPayloadsCompatible ==
    (pc = "store" /\ idx = 0) =>
        \A a \in OnePayloadIds \cap Registered(uf), b \in OnePayloadIds \cap Registered(uf) :
            (/\ uf.typeInfo[a] = PayloadOf(a) /\ uf.typeInfo[b] = PayloadOf(b)
             /\ Concrete(PayloadOf(a)) /\ Concrete(PayloadOf(b))
             /\ RootOf(uf, a) = RootOf(uf, b)) =>
                IsCompatible(PayloadOf(a), PayloadOf(b))

\* the dereferences *E of a program that are the right-hand side of an
\* assignment in a function body or the return expression of a function:
\* the function, the position (0 for the return expression) and E
DerefSites(p) ==
    UNION {
        {[fn |-> f, at |-> k, target |-> p[f].body[k].expression.expression] :
            k \in {j \in DOMAIN p[f].body :
                      /\ p[f].body[j].type = "AssignmentStatement"
                      /\ p[f].body[j].expression.type = "DereferenceExpression"}}
        \cup (IF p[f].returnExpression.type = "DereferenceExpression"
              THEN {[fn |-> f, at |-> 0, target |-> p[f].returnExpression.expression]}
              ELSE {})
        : f \in DOMAIN p}

\* C21: at the end of a run, when every dereference *E on the right of an
\* assignment or returned by a function (a self-recursive one included) has
\* an E that is not itself a dereference and is either of a non-pointer
\* type, of a pointer type or without a type, the list holds one
\* dereference-of-non-pointer error for each E of a non-pointer type and no
\* other such error.
C21_DerefOfNonPointerReported ==
    pc = "done" =>
        LET sites == DerefSites(prog)
            t(s) == TypeOf(uf, ExprId(s.target))
            bad == {s \in sites : Concrete(t(s)) /\ Tag(t(s)) # "pointer"}
            fine == {s \in sites : ~IsType(t(s)) \/ Tag(t(s)) = "pointer"}
        IN  (/\ bad \cup fine = sites
             /\ \A s \in sites : s.target.type # "DereferenceExpression") =>
                CountKind(errors, "DereferenceOfNonPointer") = Cardinality(bad)

\* the type an operand of a binary expression resolves to: for a call the
\* return type of the callee, whose type is a function type or a recursive
\* type around one; for anything else the type of the operand
ResolvedOperandType(u, operand) ==
    LET returnOf(ft) ==
            IF ~Has(ft, "returnType") THEN NoType
            ELSE IF Has(ft.returnType, "expression")
            THEN TypeOf(u, GetTypeId(ft.returnType, ""))
            ELSE ft.returnType
        calleeType == TypeOf(u, ExprId(operand.callee))
    IN  IF operand.type # "FunctionCall" THEN TypeOf(u, ExprId(operand))
        ELSE IF Tag(calleeType) = "function" THEN returnOf(calleeType)
        ELSE IF Tag(calleeType) = "recursive" /\ Tag(calleeType.body) = "function"
        THEN returnOf(calleeType.body)
        ELSE NoType

\* the operands of the binary-expression constraints, one entry per
\* constraint and side
BinaryOperands(cons) ==
    UNION {{<<i, "left", cons[i].originAST.left>>, <<i, "right", cons[i].originAST.right>>} :
              i \in {j \in DOMAIN cons : OriginType(cons[j]) = "BinaryExpression"}}

\* C22: at the end of a run, when every operand of every binary-expression
\* constraint resolves to a non-type-variable type or to none (a call
\* through the return type of its callee, typed function or recursive), the
\* list holds one non-integer-operand error for each operand that resolves
\* to a type other than int, and no other such error.
C22_NonIntOperandsReported ==
    pc = "done" =>
        LET ops == BinaryOperands(constraints)
            t(o) == ResolvedOperandType(uf, o[3])
            bad == {o \in ops : Concrete(t(o)) /\ Tag(t(o)) # "int"}
            fine == {o \in ops : ~IsType(t(o)) \/ Tag(t(o)) = "int"}
        IN  bad \cup fine = ops =>
                CountKind(errors, "BinaryOperandNotInt") = Cardinality(bad)

\* the variables that are the target of a plain assignment anywhere in a
\* list of statements: the branches of an if and the body of a while included
RECURSIVE AssignedAnywhere(_)
AssignedAnywhere(stmts) ==
    IF stmts = <<>> THEN {}
    ELSE LET stmt == Head(stmts)
             here ==
                CASE stmt.type = "AssignmentStatement" -> {stmt.variable}
                  [] stmt.type = "IfStatement" ->
                        AssignedAnywhere(stmt.thenStatement) \cup
                            (IF Has(stmt, "elseStatement")
                             THEN AssignedAnywhere(stmt.elseStatement[1]) ELSE {})
                  [] stmt.type = "WhileStatement" -> AssignedAnywhere(stmt.body)
                  [] OTHER -> {}
         IN  here \cup AssignedAnywhere(Tail(stmts))

\* the constraints of function func that bind its local v to a pointer type
UninitializedConstraints(cons, func, v) ==
    {i \in DOMAIN cons :
        /\ cons[i].originAST = func
        /\ cons[i].left = <<Deferred(Var(v))>>
        /\ Len(cons[i].right) = 1
        /\ Tag(cons[i].right[1]) = "pointer"}

\* C23: once the constraints are collected, every local of every function
\* that is assigned nowhere in the body has exactly one constraint binding it
\* to a pointer to a type variable, and every local that is assigned
\* somewhere, in a branch of an if or in the body of a while at any depth,
\* has none.
C23_UninitializedLocals ==
    pc # "parsed" =>
        \A f \in DOMAIN prog :
            \A k \in DOMAIN prog[f].localVariables :
                LET v == prog[f].localVariables[k]
                    cs == UninitializedConstraints(constraints, prog[f], v)
                IN  IF v \in AssignedAnywhere(prog[f].body)
                    THEN cs = {}
                    ELSE /\ Cardinality(cs) = 1
                         /\ \A i \in cs :
                               HasTypeVariable(constraints[i].right[1].pointsTo)

\* the ids unifyConstraints computes for the operands of constraint number i
OperandIds(cons, i, side) ==
    LET ctx == IF OriginType(cons[i]) = "AssignmentStatement" THEN "" ELSE ContextId(i)
    IN  [k \in 1..Len(side) |-> GetTypeId(side[k], ctx)]

\* the positional pairs of two lists of ids: none when a side is empty,
\* otherwise as many as the longer side has, the shorter side cycling
PositionalPairs(leftIds, rightIds) ==
    LET m == Len(leftIds)
        n == Len(rightIds)
    IN  IF m = 0 \/ n = 0 THEN <<>>
        ELSE [i \in 1..Max2(m, n) |-> <<leftIds[((i - 1) % m) + 1], rightIds[((i - 1) % n) + 1]>>]

\* the unions of a list of pairs one after the other, each failure recorded
\* as one error with the kind of the origin and the two ids
RECURSIVE UnionsInOrder(_, _, _)
UnionsInOrder(ss, kind, pairs) ==
    IF pairs = <<>> THEN ss
    ELSE LET r == Union(ss.uf, pairs[1][1], pairs[1][2])
         IN  UnionsInOrder([uf |-> r.uf,
                            errors |-> IF r.ok THEN ss.errors
                                       ELSE Append(ss.errors,
                                                   ConflictError(kind, pairs[1][1], pairs[1][2]))],
                           kind, Tail(pairs))

\* C24: in the unification loop every operand of every constraint is
\* registered, the constraints are taken in the order of the list, and the
\* step for a constraint is exactly the unions of its positional pairs in
\* order (max(m, n) of them, the i-th on left[i mod m] and right[i mod n],
\* none when a side is empty), each union that returns false adding one
\* error with the kind of the origin and the two ids.
C24_PositionalUnions ==
    /\ [](pc = "unify" =>
             \A i \in DOMAIN constraints :
                 \A side \in {constraints[i].left, constraints[i].right} :
                     \A k \in DOMAIN side :
                         OperandIds(constraints, i, side)[k] \in Registered(uf))
    /\ [][pc = "unify" =>
             LET c == constraints[idx]
                 after == UnionsInOrder([uf |-> uf, errors |-> errors], OriginType(c),
                                        PositionalPairs(OperandIds(constraints, idx, c.left),
                                                        OperandIds(constraints, idx, c.right)))
             IN  /\ uf' = after.uf
                 /\ errors' = after.errors
                 /\ idx' = idx + 1]_vars

\* the constraint just unified has three operands on the left and two on the
\* right, and one of its unions failed
C24_Witness ==
    /\ pc = "linkCalls"
    /\ Len(constraints[idx - 1].left) = 3
    /\ Len(constraints[idx - 1].right) = 2
    /\ errors # <<>>
    /\ errors[Len(errors)].origin = "OutputStatement"

\* the call expressions that occur in a node of the AST (an expression or a
\* statement) or in a list of statements, arguments or properties
RECURSIVE CallExpressions(_)
RECURSIVE CallExpressionsOfList(_)
CallExpressions(node) ==
    CASE node.type = "FunctionCall" ->
            {node} \cup CallExpressions(node.callee)
                \cup (IF node.arguments = <<>> THEN {}
                      ELSE CallExpressionsOfList(node.arguments[1]))
      [] node.type = "BinaryExpression" ->
            CallExpressions(node.left) \cup CallExpressions(node.right)
      [] node.type \in {"AllocExpression", "DereferenceExpression",
                        "AssignmentStatement", "OutputStatement"} ->
            CallExpressions(node.expression)
      [] node.type = "PropertyAccess" -> CallExpressions(node.object)
      [] node.type = "ObjectLiteral" ->
            IF node.properties = <<>> THEN {}
            ELSE UNION {CallExpressions(node.properties[1][i].value) :
                            i \in 1..Len(node.properties[1])}
      [] node.type = "PointerAssignmentStatement" ->
            CallExpressions(node.pointer) \cup CallExpressions(node.value)
      [] node.type = "IfStatement" ->
            CallExpressions(node.condition) \cup CallExpressionsOfList(node.thenStatement)
                \cup (IF Has(node, "elseStatement")
                      THEN CallExpressionsOfList(node.elseStatement[1]) ELSE {})
      [] node.type = "WhileStatement" ->
            CallExpressions(node.condition) \cup CallExpressionsOfList(node.body)
      [] OTHER -> {}

CallExpressionsOfList(nodes) == UNION {CallExpressions(nodes[i]) : i \in 1..Len(nodes)}

\* the call expressions of a program
CallsOfProgram(ast) ==
    UNION {CallExpressionsOfList(ast[k].body) \cup CallExpressions(ast[k].returnExpression) :
               k \in 1..Len(ast)}

\* the calls of the program whose callee is a variable that names a function
\* of the program
CallsOfDeclared ==
    {c \in CallsOfProgram(prog) :
        /\ c.callee.type = "Variable"
        /\ \E k \in 1..Len(prog) : prog[k].name = c.callee.name}

\* the return expression of the function called (the last one of that name)
ReturnExpressionOf(ast, functionName) ==
    LET hits == {k \in 1..Len(ast) : ast[k].name = functionName}
    IN  ast[CHOOSE k \in hits : \A j \in hits : j <= k].returnExpression

\* the solver has finished registration, unification and the linking passes
AfterPhaseA == pc \in {"validate", "done"}

\* C25: once the solver has finished, every call whose callee is a variable
\* that names a function of the program is in the class of the return
\* expression of that function, or the errors hold a return type mismatch
\* for the function called.
C25_CallsLinkedToReturns ==
    AfterPhaseA =>
        \A c \in CallsOfDeclared :
            \/ /\ ExprId(c) \in Registered(uf)
               /\ ExprId(ReturnExpressionOf(prog, c.callee.name)) \in Registered(uf)
               /\ RootOf(uf, ExprId(c)) = RootOf(uf, ExprId(ReturnExpressionOf(prog, c.callee.name)))
            \/ \E i \in DOMAIN errors :
                    /\ errors[i].kind = "ReturnTypeMismatch"
                    /\ errors[i].name = c.callee.name

\* the property accesses on a variable that linkPropertyAccessToFieldTypes visits
VariableAccesses(cons) ==
    {cons[i].originAST : i \in {k \in 1..Len(cons) :
                                    /\ OriginType(cons[k]) = "PropertyAccess"
                                    /\ cons[k].originAST.object.type = "Variable"}}

\* the ids of the record literals in the class of the variable v
RecordLiteralsInClass(u, cons, v) ==
    {id \in DOMAIN objectLiteralFields(cons) :
        /\ id \in Registered(u)
        /\ ExprId(Var(v)) \in Registered(u)
        /\ RootOf(u, id) = RootOf(u, ExprId(Var(v)))}

\* the pass over the property accesses adds a missing-field error for the field f
MissingFieldAdded(f) ==
    \E i \in (Len(errors) + 1)..Len(errors') :
        errors'[i].kind = "MissingField" /\ errors'[i].name = f

\* C26: for a property access v.f, when the class of v holds a record literal
\* without a field f (v assigned the literal or an alias of such a variable),
\* the pass that links property accesses adds a missing-field error for f;
\* when every record literal of the class has the field, it adds none.
C26_MissingFieldReported ==
    [][pc = "linkProps" =>
          \A a \in VariableAccesses(constraints) :
              LET lits == RecordLiteralsInClass(uf, constraints, a.object.name)
                  missing == \E id \in lits :
                                a.property \notin DOMAIN objectLiteralFields(constraints)[id]
              IN  /\ missing => MissingFieldAdded(a.property)
                  /\ (lits # {} /\ ~missing) => ~MissingFieldAdded(a.property)]_vars

\* the assignment statements of a list of statements, the branches of an if
\* and the body of a while included
RECURSIVE AssignmentStatements(_)
AssignmentStatements(stmts) ==
    IF stmts = <<>> THEN {}
    ELSE LET stmt == Head(stmts)
             here ==
                CASE stmt.type = "AssignmentStatement" -> {stmt}
                  [] stmt.type = "IfStatement" ->
                        AssignmentStatements(stmt.thenStatement) \cup
                            (IF Has(stmt, "elseStatement")
                             THEN AssignmentStatements(stmt.elseStatement[1]) ELSE {})
                  [] stmt.type = "WhileStatement" -> AssignmentStatements(stmt.body)
                  [] OTHER -> {}
         IN  here \cup AssignmentStatements(Tail(stmts))

\* the top-level tags of the resolved values that the assignments of function
\* func give to the variable v
ValueTagsIn(u, cons, func, v) ==
    LET mine == {i \in DOMAIN cons :
                    /\ OriginType(cons[i]) = "AssignmentStatement"
                    /\ cons[i].originAST \in AssignmentStatements(func.body)
                    /\ cons[i].originAST.variable = v
                    /\ IsType(getValueType(u, cons[i].right[1].expression).type)}
    IN  {Tag(getValueType(u, cons[i].right[1].expression).type) : i \in mine}

\* the variables assigned somewhere in the program
AssignedVariables(ast) ==
    UNION {{s.variable : s \in AssignmentStatements(ast[k].body)} : k \in 1..Len(ast)}

\* the check of the variables adds an error for the variable v
InconsistencyAdded(v) ==
    \E i \in (Len(errors) + 1)..Len(errors') :
        errors'[i].kind = "InconsistentVariableType" /\ errors'[i].name = v

\* C27: the check of the assigned variables reports a variable v exactly when
\* the values assigned to v inside one function resolve to more than one
\* top-level tag; assignments to a variable of the same name in another
\* function are not counted together with them.
C27_ConsistencyPerFunction ==
    [][(pc = "validate" /\ idx = NumChecks) =>
          \A v \in AssignedVariables(prog) :
              InconsistencyAdded(v) <=>
                  \E k \in 1..Len(prog) :
                      Cardinality(ValueTagsIn(uf, constraints, prog[k], v)) > 1]_vars

(***************************************************************************)
(* The query surface: findConnectedTypes, findTypeByPattern and the        *)
(* formatting of types (formatConcreteType, inferReturnTypeFromExpression) *)
(***************************************************************************)
\* findConnectedTypes(targetExpr): find on the id of the expression, then
\* getAllGroups; the payload stored at the first member of the group of the
\* expression that has one
findConnectedTypes(u, targetExpr) ==
    LET targetId == "expr_" \o ExprJSON(targetExpr)
        pick(gu, members) ==
            LET typed == {k \in 1..Len(members) : IsType(gu.typeInfo[members[k]])}
            IN  [uf |-> gu,
                 type |-> IF typed = {} THEN NoType
                          ELSE gu.typeInfo[members[CHOOSE k \in typed : \A j \in typed : k <= j]]]
        mine(gg, root) ==
            pick(gg.uf, LET at == {g \in 1..Len(gg.groups) : gg.groups[g].rep = root}
                        IN  IF at = {} THEN <<>> ELSE gg.groups[CHOOSE g \in at : TRUE].members)
        grouped(f) == mine(getAllGroups(f.uf), f.root)
    IN  grouped(Find(u, targetId))

\* findTypeByPattern(exprName): the first payload, in the order of the
\* entries of typeInfo, whose id includes the name
findTypeByPattern(u, exprName) ==
    LET hits == {k \in 1..Len(u.order) :
                    IsType(u.typeInfo[u.order[k]]) /\ Includes(u.order[k], exprName)}
    IN  IF hits = {} THEN NoType
        ELSE u.typeInfo[u.order[CHOOSE k \in hits : \A j \in hits : k <= j]]

\* formatConcreteType called without a unionFind
NoStore == [none |-> TRUE]

HasStore(u) == ~Has(u, "none")

\* depth > DepthCeiling is answered with "..."
DepthCeiling == 3

\* the outcome of a formatting call: the text, the deepest nesting of calls
\* reached, whether the call never returns (a call recurs inside itself with
\* the same arguments), the ids handed to getType / find on the way ("*"
\* stands for getAllGroups)
Leaf(text, n, asked) == [text |-> text, nesting |-> n, diverges |-> FALSE, asked |-> asked]

Diverged(n) == [text |-> "", nesting |-> n, diverges |-> TRUE, asked |-> <<>>]

Wrap(pre, r, post, askedBefore) ==
    [text |-> pre \o r.text \o post, nesting |-> r.nesting, diverges |-> r.diverges,
     asked |-> askedBefore \o r.asked]

\* items.map(...).join(", ") of the outcomes rs
RECURSIVE JoinOutcomes(_, _)
JoinOutcomes(rs, n) ==
    IF rs = <<>> THEN Leaf("", n, <<>>)
    ELSE LET rest == JoinOutcomes(Tail(rs), n)
         IN  [text |-> IF Tail(rs) = <<>> THEN rs[1].text ELSE rs[1].text \o ", " \o rest.text,
              nesting |-> Max2(rs[1].nesting, rest.nesting),
              diverges |-> rs[1].diverges \/ rest.diverges,
              asked |-> rs[1].asked \o rest.asked]

RECURSIVE formatConcreteType(_, _, _, _)
RECURSIVE inferReturnTypeFromExpression(_, _, _)

formatConcreteType(type, u, depth, stack) ==
    LET frame == [fn |-> "formatConcreteType", arg |-> type, store |-> HasStore(u), depth |-> depth]
        st1 == stack \cup {frame}
        n == Cardinality(st1)
        sub(t) == formatConcreteType(t, u, depth + 1, st1)
        \* a CustomType component is looked up by getTypeId, then by the id of
        \* its expression
        id1(item) == GetTypeId(item, "")
        id2(item) == "expr_" \o ExprJSON(item.expression)
        pointer ==
            IF ~Has(type, "pointsTo") THEN Leaf("pointer(?)", n, <<>>)
            ELSE IF HasStore(u) /\ Has(type.pointsTo, "expression")
            THEN IF IsType(TypeOf(u, id1(type.pointsTo)))
                 THEN Wrap("pointer(", sub(TypeOf(u, id1(type.pointsTo))), ")",
                           <<id1(type.pointsTo)>>)
                 ELSE IF IsType(TypeOf(u, id2(type.pointsTo)))
                 THEN Wrap("pointer(", sub(TypeOf(u, id2(type.pointsTo))), ")",
                           <<id1(type.pointsTo), id2(type.pointsTo)>>)
                 ELSE IF type.pointsTo.expression.type = "Variable"
                         /\ IsGreekName(type.pointsTo.expression.name)
                 THEN Leaf("pointer(" \o type.pointsTo.expression.name \o ")", n,
                           <<id1(type.pointsTo), id2(type.pointsTo)>>)
                 ELSE Wrap("pointer(", sub(type.pointsTo), ")",
                           <<id1(type.pointsTo), id2(type.pointsTo)>>)
            ELSE Wrap("pointer(", sub(type.pointsTo), ")", <<>>)
        field(f) ==
            IF HasStore(u) /\ Has(f.fieldType, "expression")
            THEN IF IsType(TypeOf(u, ExprId(f.fieldType.expression)))
                 THEN Wrap(f.name \o ": ", sub(TypeOf(u, ExprId(f.fieldType.expression))), "",
                           <<ExprId(f.fieldType.expression)>>)
                 ELSE Leaf(f.name \o ": unknown", n, <<ExprId(f.fieldType.expression)>>)
            ELSE Wrap(f.name \o ": ", sub(f.fieldType), "", <<>>)
        return ==
            IF ~Has(type, "returnType") THEN Leaf("?", n, <<>>)
            ELSE IF HasStore(u) /\ Has(type.returnType, "expression")
            THEN IF IsType(TypeOf(u, id1(type.returnType)))
                 THEN Wrap("", sub(TypeOf(u, id1(type.returnType))), "",
                           <<id1(type.returnType)>>)
                 ELSE IF IsType(TypeOf(u, id2(type.returnType)))
                 THEN Wrap("", sub(TypeOf(u, id2(type.returnType))), "",
                           <<id1(type.returnType), id2(type.returnType)>>)
                 ELSE Wrap("", inferReturnTypeFromExpression(type.returnType.expression, u, st1),
                           "", <<id1(type.returnType), id2(type.returnType)>>)
            ELSE Wrap("", sub(type.returnType), "", <<>>)
        function(params, ret) ==
            [text |-> "function(" \o params.text \o ") -> " \o ret.text,
             nesting |-> Max2(params.nesting, ret.nesting),
             diverges |-> params.diverges \/ ret.diverges,
             asked |-> params.asked \o ret.asked]
    IN  IF frame \in stack THEN Diverged(Cardinality(stack))
        ELSE IF depth > DepthCeiling THEN Leaf("...", n, <<>>)
        ELSE CASE Tag(type) = "int" -> Leaf("int", n, <<>>)
               [] Tag(type) = "pointer" -> pointer
               [] Tag(type) = "typevar" -> Leaf(type.name, n, <<>>)
               [] Tag(type) = "recursive" ->
                     Wrap("μ" \o type.variable \o ".", sub(type.body), "", <<>>)
               [] Tag(type) = "record" ->
                     Wrap("{", JoinOutcomes([k \in 1..Len(type.fields) |-> field(type.fields[k])], n),
                          "}", <<>>)
               [] Tag(type) = "function" ->
                     function(JoinOutcomes([k \in 1..Len(type.parameters) |->
                                                sub(type.parameters[k])], n),
                              return)
               [] OTHER -> Leaf("unknown", n, <<>>)

inferReturnTypeFromExpression(expr, u, stack) ==
    LET frame == [fn |-> "inferReturnTypeFromExpression", arg |-> expr, store |-> HasStore(u),
                  depth |-> 0]
        st1 == stack \cup {frame}
        n == Cardinality(st1)
        targetId == "expr_" \o ExprJSON(expr)
        connected == <<targetId, "*">>
        top(t, asked) == Wrap("", formatConcreteType(t, u, 0, st1), "", asked)
        bare(t, asked) == Wrap("", formatConcreteType(t, NoStore, 0, st1), "", asked)
        again(e) == inferReturnTypeFromExpression(e, u, st1)
        \* patterns of the Variable case
        typePattern == "type_{\"type\":\"Variable\",\"name\":\"" \o expr.name \o "\"}"
        variable ==
            IF IsType(TypeOf(u, targetId)) THEN top(TypeOf(u, targetId), connected \o <<targetId>>)
            ELSE IF IsType(TypeOf(u, typePattern))
            THEN top(TypeOf(u, typePattern), connected \o <<targetId, targetId, typePattern>>)
            ELSE Leaf("?", n, connected \o <<targetId, targetId, typePattern>>)
        call(calleeId, calleeType) ==
            IF IsType(calleeType) /\ Tag(calleeType) = "function" /\ Has(calleeType, "returnType")
            THEN IF Has(calleeType.returnType, "expression")
                 THEN IF IsType(TypeOf(u, GetTypeId(calleeType.returnType, "")))
                      THEN bare(TypeOf(u, GetTypeId(calleeType.returnType, "")),
                                connected \o <<calleeId, GetTypeId(calleeType.returnType, "")>>)
                      ELSE Leaf("?", n, connected
                                            \o <<calleeId, GetTypeId(calleeType.returnType, "")>>)
                 ELSE bare(calleeType.returnType, connected \o <<calleeId>>)
            ELSE Leaf("?", n, connected \o <<calleeId>>)
        dereferenced(r) ==
            IF ~r.diverges /\ Len(r.text) >= 8 /\ SubSeq(r.text, 1, 8) = "pointer("
            THEN [r EXCEPT !.text = IF Len(r.text) > 9 THEN SubSeq(r.text, 9, Len(r.text) - 1)
                                    ELSE "?",
                           !.asked = connected \o r.asked]
            ELSE [r EXCEPT !.text = "?", !.asked = connected \o r.asked]
    IN  IF frame \in stack THEN Diverged(Cardinality(stack))
        ELSE IF ~HasStore(u) THEN Leaf("?", n, <<>>)
        ELSE IF IsType(findConnectedTypes(u, expr).type)
        THEN top(findConnectedTypes(u, expr).type, connected)
        ELSE IF expr.type = "Variable" /\ IsType(findTypeByPattern(u, expr.name))
        THEN top(findTypeByPattern(u, expr.name), connected)
        ELSE CASE expr.type = "Variable" -> variable
               [] expr.type \in {"NumberLiteral", "BinaryExpression"} -> Leaf("int", n, connected)
               [] expr.type = "FunctionCall" ->
                     call(ExprId(expr.callee), TypeOf(u, ExprId(expr.callee)))
               [] expr.type = "AllocExpression" ->
                     Wrap("pointer(", again(expr.expression), ")", connected)
               [] expr.type = "DereferenceExpression" -> dereferenced(again(expr.expression))
               [] expr.type = "AddressExpression" ->
                     Wrap("pointer(", again(Var(expr.variable)), ")", connected)
               [] OTHER -> Leaf("?", n, connected)

\* the store after the lookups of a formatting call: find on every id asked
\* for, in order
RECURSIVE StoreAfterLookups(_, _)
StoreAfterLookups(u, asked) ==
    IF asked = <<>> THEN u
    ELSE StoreAfterLookups(IF asked[1] = "*" THEN getAllGroups(u).uf ELSE Find(u, asked[1]).uf,
                           Tail(asked))

(***************************************************************************)
(* Query-level specification: the operations of the store together with    *)
(* the queries of the diagnostics surface, in any order.                   *)
(***************************************************************************)
\* the expressions findConnectedTypes is asked about
QueriedExpressions == {VarX}

\* the names findTypeByPattern is asked about
QueriedNames == {"a", "x"}

UFGetType ==
    \E id \in PoolIds :
        /\ pc = "store"
        /\ uf' = GetType(uf, id).uf
        /\ last' = [op |-> "getType", a |-> id, b |-> "", ok |-> TRUE]
        /\ UNCHANGED <<prog, constraints, errors, pc, idx, pool>>

UFGetAllGroups ==
    /\ pc = "store"
    /\ uf' = getAllGroups(uf).uf
    /\ last' = [op |-> "getAllGroups", a |-> "", b |-> "", ok |-> TRUE]
    /\ UNCHANGED <<prog, constraints, errors, pc, idx, pool>>

UFFindConnectedTypes ==
    \E e \in QueriedExpressions :
        /\ pc = "store"
        /\ uf' = findConnectedTypes(uf, e).uf
        /\ last' = [op |-> "findConnectedTypes", a |-> e.name, b |-> "", ok |-> TRUE]
        /\ UNCHANGED <<prog, constraints, errors, pc, idx, pool>>

UFFindTypeByPattern ==
    \E n \in QueriedNames :
        /\ pc = "store"
        /\ last' = [op |-> "findTypeByPattern", a |-> n, b |-> "",
                    ok |-> IsType(findTypeByPattern(uf, n))]
        /\ UNCHANGED <<prog, constraints, uf, errors, pc, idx, pool>>

\* formatConcreteType(getType(id), unionFind) for a class that has a payload
UFFormat ==
    \E id \in PoolIds :
        /\ pc = "store"
        /\ id \in Registered(uf)
        /\ IsType(TypeOf(uf, id))
        /\ LET become(r) == ~r.diverges /\ uf' = StoreAfterLookups(uf, <<id>> \o r.asked)
           IN  become(formatConcreteType(TypeOf(uf, id), uf, 0, {}))
        /\ last' = [op |-> "format", a |-> id, b |-> "", ok |-> TRUE]
        /\ UNCHANGED <<prog, constraints, errors, pc, idx, pool>>

NextQuery ==
    \/ UFMakeSet \/ UFFind \/ UFUnion
    \/ UFGetType \/ UFGetAllGroups \/ UFFindConnectedTypes \/ UFFindTypeByPattern \/ UFFormat

\* the pools the queries are tried on: every shape of payload on two ids, and
\* three ids that unions chain together
QueryPools == {1, 2}

InitQuery == InitUF /\ pool \in QueryPools

SpecQuery == InitQuery /\ [][NextQuery]_vars

QueryOps == {"getType", "getAllGroups", "findConnectedTypes", "findTypeByPattern", "format"}

\* the payload of every class of u, read without touching u
ClassPayloads(u) == [id \in Registered(u) |-> TypeOf(u, id)]

\* C28: a query of the diagnostics surface (getType, getAllGroups,
\* findConnectedTypes, findTypeByPattern, the formatting of a type) leaves the
\* store as it was: the same registered ids, the same partition, the same
\* payload of every class, whether or not the id asked about was registered.
C28_QueriesLeaveStore ==
    [][last'.op \in QueryOps =>
          /\ Registered(uf') = Registered(uf)
          /\ Partition(uf') = Partition(uf)
          /\ ClassPayloads(uf') = ClassPayloads(uf)]_vars

\* the outcome of formatConcreteType(payload, unionFind) for the payload
\* stored at an id
FormatOutcome(u, id) == formatConcreteType(u.typeInfo[id], u, 0, {})

\* C29: on the store of every state of a run, formatConcreteType of every
\* stored payload returns, self-referential types included, and the calls of
\* formatConcreteType and inferReturnTypeFromExpression are never nested
\* deeper than the depth ceiling allows (depths 0 to DepthCeiling + 1, where
\* "..." is returned).
C29_FormattingTerminates ==
    \A id \in Registered(uf) :
        IsType(uf.typeInfo[id]) =>
            /\ ~FormatOutcome(uf, id).diverges
            /\ FormatOutcome(uf, id).nesting <= DepthCeiling + 2

\* the id reached from id after n steps along the parent pointers
RECURSIVE ParentAfter(_, _, _)
ParentAfter(u, id, n) == IF n = 0 THEN id ELSE ParentAfter(u, u.parent[id], n - 1)

\* the self-parented ids reached from id within as many steps as there are ids
RootsReached(u, id) ==
    {ParentAfter(u, id, n) : n \in 0..Cardinality(Registered(u))}
        \cap {r \in Registered(u) : u.parent[r] = r}

\* C30: after any sequence of makeSet, find and union the parent map is a
\* forest: every parent is a registered id, from every id the parent pointers
\* lead to a self-parented root within as many steps as there are ids, find
\* returns that root, and every id lies in exactly one class.
C30_ParentForest ==
    /\ \A id \in Registered(uf) : uf.parent[id] \in Registered(uf)
    /\ \A id \in Registered(uf) : Cardinality(RootsReached(uf, id)) = 1
    /\ \A id \in Registered(uf) : RootOf(uf, id) \in RootsReached(uf, id)
    /\ \A id \in Registered(uf) : Cardinality({c \in Partition(uf) : id \in c}) = 1

\* a union has just left an id two steps below its root (a chain that a union
\* builds on a re-registered root)
C30_Witness ==
    \E id \in Registered(uf) :
        /\ uf.parent[id] # id
        /\ uf.parent[uf.parent[id]] # uf.parent[id]
        /\ last.op = "union"

====
